---- MODULE Spec2Model ----
(***************************************************************************)
(* A model of the Draconic interpreter (avrae/draconic).                   *)
(*                                                                         *)
(* The evaluator is a recursive tree walk in the source.  Here it is an    *)
(* abstract machine: ctl says what the walk is doing (visiting a node,     *)
(* returning a value, propagating an exception), stk holds the suspended   *)
(* handlers (one frame per Python call that is waiting for a child         *)
(* _eval/_exec to return).  One step of the machine is the code between    *)
(* two calls of _eval.                                                     *)
(*                                                                         *)
(* Three specifications share the variables:                               *)
(*   Spec / FairSpec   the interpreter driven by the host with scripts     *)
(*   SpecTypes         the safe containers of types.py under their methods *)
(*   SpecOps           the operator table of helpers.py on chosen operands *)
(***************************************************************************)
EXTENDS Integers, Sequences, FiniteSets, TLC

VARIABLES
    self,      \* the DraconicInterpreter's fields: _num_stmts, _loops, _depth, _names (index into envs)
    ctl,       \* what the evaluator is doing: idle / eval a node / return a value / raise
    stk,       \* the suspended handlers, innermost last
    envs,      \* the name dicts that exist (self._names and closures point into it)
    evallers,  \* the comprehensions and generator expressions: the closures of _do_comprehension
    it_pos,    \* position of the host's unbounded iterator (builtin "it")
    result,    \* what the last finished eval/execute gave the host
    runs,      \* number of top-level eval/execute calls made so far
    ev,        \* history: what the last step did
    hist,      \* history: per-run counts of handled node visits and allowed iterations
    box,       \* SpecTypes: the safe container a script holds and the last call on it
    opst,      \* SpecOps: operands and outcome of the last operator call
    heap,      \* SpecRefs: the container objects, the names that refer to them, the last statement
    scope      \* SpecUnpack, SpecMatch, SpecArgs: a names dict and the last statement that bound into it

vars == <<self, ctl, stk, envs, evallers, it_pos, result, runs, ev, hist, box, opst, heap, scope>>

(***************************************************************************)
(* Configuration (DraconicConfig).  The host chooses these; the values are *)
(* small so that every ceiling is reached.                                 *)
(***************************************************************************)
max_statements == 24
max_loops == 4
max_recursion_depth == 3
max_const_len == 10
max_power_base == 3
max_power == 3
max_int_size == 4

MaxRuns == 2

(***************************************************************************)
(* Strings are sequences of one-character strings, so that len() and       *)
(* startswith() are computed.                                              *)
(***************************************************************************)
RECURSIVE StartsWith(_, _)
StartsWith(s, p) ==
    IF p = <<>> THEN TRUE
    ELSE IF s = <<>> THEN FALSE
    ELSE Head(s) = Head(p) /\ StartsWith(Tail(s), Tail(p))

DISALLOW_PREFIXES == << <<"_">>, <<"f", "u", "n", "c", "_">> >>
DISALLOW_METHODS == << <<"f", "o", "r", "m", "a", "t">>,
                       <<"f", "o", "r", "m", "a", "t", "_", "m", "a", "p">>,
                       <<"m", "r", "o">> >>

(***************************************************************************)
(* Runtime values.  k is the Python type; a field name has one type in     *)
(* every record, so any two values can be compared.                        *)
(***************************************************************************)
IntV(n) == [k |-> "int", i |-> n]
NoneV == [k |-> "NoneType"]
StrV(s) == [k |-> "str", s |-> s]
TupleV(l) == [k |-> "tuple", l |-> l]
\* a _Function or _Lambda: its node and the names dict it was defined in (by reference)
\* a _Function or _Lambda: env is the names dict it was defined in (held by reference), expr
\* the source tag; snap is history, the contents of that dict when the definition ran
FuncV(node, env, expr, snap) ==
    [k |-> IF node.t = "Lambda" THEN "_Lambda" ELSE "_Function", node |-> node, env |-> env, expr |-> expr,
     snap |-> snap]
Undef == [k |-> "undef"]
BoolV(b) == [k |-> "bool", b |-> b]
FloatV(num, den) == [k |-> "float", num |-> num, den |-> den]
HostIter == [k |-> "hostiter"]
\* a generator expression's value: the generator object evallers[id]
GenV(id) == [k |-> "generator", id |-> id]
HostObj == [k |-> "hostobj"]
HostFn(name) == [k |-> "hostfn", name |-> name]
\* the control-flow sentinels _Return, _Break, _Continue are ordinary return values
ReturnS(v) == [k |-> "_Return", value |-> v]
BreakS == [k |-> "_Break"]
ContinueS == [k |-> "_Continue"]

\* isinstance(retval, (_Break, _Continue))
LoopControlMut(v) == FALSE
LoopControl(v) == v.k \in {"_Break", "_Continue"}

IsSentinel(v) == v.k \in {"_Return", "_Break", "_Continue"}

(***************************************************************************)
(* Syntax trees (the parser's output, which the evaluator consumes).  t is *)
(* the ast class; the other fields are the ones the handlers read.         *)
(***************************************************************************)
Absent == [t |-> "absent"]
Constant(v) == [t |-> "Constant", c |-> v]
Num(n) == Constant(IntV(n))
Str(s) == Constant(StrV(s))
Name(id) == [t |-> "Name", id |-> id]
BinOp(l, op, r) == [t |-> "BinOp", left |-> l, op |-> op, right |-> r]
Compare(l, op, r) == [t |-> "Compare", left |-> l, ops |-> <<op>>, comparators |-> <<r>>]
Call(f, args) == [t |-> "Call", func |-> f, args |-> args]
Attribute(v, attr) == [t |-> "Attribute", value |-> v, attr |-> attr]
List(elts) == [t |-> "List", elts |-> elts]
Tuple(elts) == [t |-> "Tuple", elts |-> elts]
Starred(v) == [t |-> "Starred", value |-> v]
ListComp(elt, gens) == [t |-> "ListComp", elt |-> elt, generators |-> gens]
GeneratorExp(elt, gens) == [t |-> "GeneratorExp", elt |-> elt, generators |-> gens]
comprehension(target, iter, ifs) == [t |-> "comprehension", target |-> target, iter |-> iter, ifs |-> ifs]
Expr(v) == [t |-> "Expr", value |-> v]
Assign(target, v) == [t |-> "Assign", targets |-> <<target>>, value |-> v]
Return(v) == [t |-> "Return", value |-> v]
If(test, body, orelse) == [t |-> "If", test |-> test, body |-> body, orelse |-> orelse]
For(target, iter, body, orelse) == [t |-> "For", target |-> target, iter |-> iter, body |-> body, orelse |-> orelse]
While(test, body, orelse) == [t |-> "While", test |-> test, body |-> body, orelse |-> orelse]
Break == [t |-> "Break"]
Continue == [t |-> "Continue"]
Pass == [t |-> "Pass"]
\* params are the positional parameter names; defaults belong to the last parameters
FunctionDef(name, params, defaults, body) ==
    [t |-> "FunctionDef", name |-> name, params |-> params, defaults |-> defaults, body |-> body]
Lambda(params, body) == [t |-> "Lambda", name |-> "<lambda>", params |-> params, defaults |-> <<>>, body |-> <<body>>]
JoinedStr(values) == [t |-> "JoinedStr", values |-> values]
FormattedValue(v) == [t |-> "FormattedValue", value |-> v]
Try(body, handlers, orelse, finalbody) ==
    [t |-> "Try", body |-> body, handlers |-> handlers, orelse |-> orelse, finalbody |-> finalbody]
ExceptHandler(type, name, body) == [t |-> "ExceptHandler", type |-> type, name |-> name, body |-> body]
\* a case's guard is Absent when it has none; MatchAs without a name is the wildcard, and
\* without a pattern a capture
Match(subject, cases) == [t |-> "Match", subject |-> subject, cases |-> cases]
match_case(pattern, guard, body) == [t |-> "match_case", pattern |-> pattern, guard |-> guard, body |-> body]
MatchValue(v) == [t |-> "MatchValue", value |-> v]
MatchAs(pattern, name) == [t |-> "MatchAs", pattern |-> pattern, name |-> name]
MatchClass == [t |-> "MatchClass"]

(***************************************************************************)
(* Exceptions.  cls is the class of the exception object; for the wrappers *)
(* (AnnotatedException, NestedException) orig is the class of .original,   *)
(* for every other exception orig = cls.  nest counts the NestedException  *)
(* wrappers around it.  A NestedException has two more fields: node, the   *)
(* Call node it was raised at, and last_exc, the exception it wraps.  at   *)
(* is history: the calls that were running where the exception was raised, *)
(* outermost first.                                                        *)
(***************************************************************************)
NoExc == [cls |-> "", orig |-> "", nest |-> 0, at |-> <<>>]
Exc(cls) == [cls |-> cls, orig |-> cls, nest |-> 0, at |-> <<>>]
AnnotatedException(pycls) == [cls |-> "AnnotatedException", orig |-> pycls, nest |-> 0, at |-> <<>>]

\* NestedException.__init__: original is last_exc.original when last_exc is a wrapper, else
\* last_exc itself
NestedExceptionMut(e, node) ==
    [cls |-> "NestedException", orig |-> e.cls, nest |-> e.nest + 1, at |-> <<>>, node |-> node, last_exc |-> e]
NestedException(e, node) ==
    [cls |-> "NestedException", orig |-> e.orig, nest |-> e.nest + 1, at |-> <<>>, node |-> node, last_exc |-> e]

LimitException == {"NumberTooHigh", "IterableTooLong", "TooManyStatements", "TooMuchRecursion"}

(***************************************************************************)
(* The machine.  Handlers are operators from machine states to machine     *)
(* states; mc is the record of the variables they read and write.          *)
(***************************************************************************)
NoEv == [t |-> "", node |-> Absent, e |-> NoExc, flag |-> FALSE, n |-> 0]
CtlIdle == [m |-> "idle", node |-> Absent, v |-> NoneV, e |-> NoExc]
CtlEval(node) == [m |-> "eval", node |-> node, v |-> NoneV, e |-> NoExc]
CtlVal(v) == [m |-> "val", node |-> Absent, v |-> v, e |-> NoExc]
CtlExc(e) == [m |-> "exc", node |-> Absent, v |-> NoneV, e |-> e]

Cur == [self |-> self, ctl |-> ctl, stk |-> stk, envs |-> envs, evallers |-> evallers,
        it_pos |-> it_pos, result |-> result, runs |-> runs, ev |-> ev, hist |-> hist]

Becomes(mc) ==
    /\ self' = mc.self
    /\ ctl' = mc.ctl
    /\ stk' = mc.stk
    /\ envs' = mc.envs
    /\ evallers' = mc.evallers
    /\ it_pos' = mc.it_pos
    /\ result' = mc.result
    /\ runs' = mc.runs
    /\ ev' = mc.ev
    /\ hist' = mc.hist
    /\ UNCHANGED <<box, opst, heap, scope>>

Top(mc) == mc.stk[Len(mc.stk)]
Pop(mc) == [mc EXCEPT !.stk = SubSeq(mc.stk, 1, Len(mc.stk) - 1)]
Push(mc, fr) == [mc EXCEPT !.stk = Append(mc.stk, fr)]
SetTop(mc, fr) == [mc EXCEPT !.stk[Len(mc.stk)] = fr]
Go(mc, node) == [mc EXCEPT !.ctl = CtlEval(node)]
Ret(mc, v) == [mc EXCEPT !.ctl = CtlVal(v)]
\* the calls that are running, outermost first: the Call frames that are inside a user
\* function (its arguments being bound, or its body running) or inside a host callable
SelectCalls(st) == SelectSeq(st, LAMBDA fr : fr.k = "Call" /\ fr.ph \in {"bind", "body", "host"})
Calls(st) ==
    LET c == SelectCalls(st) IN [j \in 1..Len(c) |-> [node |-> c[j].node, host |-> c[j].ph = "host"]]
RaisedAt(e, st) == [e EXCEPT !.at = Calls(st)]
Throw(mc, e) == [mc EXCEPT !.ctl = CtlExc(RaisedAt(e, mc.stk))]
Raise(mc, cls) == Throw(mc, Exc(cls))

\* _exec: run the statements of a body in order; a sentinel ends it early
_exec(mc, body) ==
    IF body = <<>> THEN Ret(mc, NoneV)
    ELSE Go(Push(mc, [k |-> "_exec", body |-> body, i |-> 1]), body[1])

_exec_k(mc, fr, v) ==
    IF IsSentinel(v) THEN Ret(Pop(mc), v)
    ELSE IF fr.i < Len(fr.body)
         THEN Go(SetTop(mc, [fr EXCEPT !.i = fr.i + 1]), fr.body[fr.i + 1])
         ELSE Ret(Pop(mc), NoneV)

(***************************************************************************)
(* Values: truth, size, iteration.                                         *)
(***************************************************************************)
Truthy(v) ==
    CASE v.k = "bool" -> v.b
      [] v.k = "int" -> v.i # 0
      [] v.k = "NoneType" -> FALSE
      [] v.k = "str" -> v.s # <<>>
      [] v.k \in {"list", "tuple"} -> v.l # <<>>
      [] OTHER -> TRUE

InSeq(x, s) == \E j \in 1..Len(s) : s[j] = x

\* approx_len_of: strings count their length; a safe list or dict answers with its cached
\* __approx_len__ (set by its constructor); anything else is walked, children equal to
\* one already visited being skipped.  Walk threads the visited list as the code does.
RECURSIVE approx_walk(_, _, _)
approx_walk(children, visited, size) ==
    IF children = <<>> THEN [size |-> size, visited |-> visited]
    ELSE LET child == Head(children) IN
         IF InSeq(child, visited) THEN approx_walk(Tail(children), visited, size)
         ELSE LET sub == CASE child.k = "str" -> [size |-> Len(child.s), visited |-> visited]
                           [] child.k \in {"list", "dict"} -> [size |-> child.alen, visited |-> visited]
                           [] child.k = "tuple" -> approx_walk(child.l, visited, Len(child.l))
                           [] OTHER -> [size |-> 0, visited |-> visited]
              IN approx_walk(Tail(children), Append(sub.visited, child), size + sub.size)

approx_len_of(obj) ==
    CASE obj.k = "str" -> Len(obj.s)
      [] obj.k \in {"list", "dict"} -> obj.alen
      [] obj.k = "tuple" -> approx_walk(obj.l, <<obj>>, Len(obj.l)).size
      [] OTHER -> 0

\* SafeList(data): the constructor computes the cached length by walking itself
SafeList(data) ==
    [k |-> "list", l |-> data, alen |-> approx_walk(data, <<[k |-> "list", l |-> data, alen |-> 0]>>, Len(data)).size]

\* what iter(v) walks, for the values that hold their items
Items(v) ==
    CASE v.k = "str" -> [j \in 1..Len(v.s) |-> StrV(<<v.s[j]>>)]
      [] v.k \in {"list", "tuple"} -> v.l
      [] OTHER -> <<>>

Iterable(v) == v.k \in {"str", "list", "tuple", "hostiter", "generator"}

\* an iterator in a frame: over held items (pos = number taken), the host's iterator, or
\* a generator object (gen is its place in evallers, 0 for none)
IterOf(v) ==
    [host |-> v.k = "hostiter", items |-> Items(v), pos |-> 0, gen |-> IF v.k = "generator" THEN v.id ELSE 0]
Exhausted(it) == ~it.host /\ it.pos >= Len(it.items)
\* the host's iterator never ends: it yields 0, 1, 0, 1, ...
NextItem(mc, it) == IF it.host THEN IntV(mc.it_pos) ELSE it.items[it.pos + 1]
Advance(mc, it) == IF it.host THEN [mc EXCEPT !.it_pos = 1 - @] ELSE mc
Taken(it) == IF it.host THEN it ELSE [it EXCEPT !.pos = @ + 1]

(***************************************************************************)
(* The operator table (OperatorMixin).  An operator gives a value, or      *)
(* fails with the class it raises: a limit class comes from                *)
(* _raise_in_context, any other from Python itself.                        *)
(***************************************************************************)
OpOk(v) == [cls |-> "", v |-> v]
OpFail(cls) == [cls |-> cls, v |-> NoneV]

Abs(n) == IF n < 0 THEN -n ELSE n

RECURSIVE IntPow(_, _)
IntPow(a, b) == IF b <= 0 THEN 1 ELSE a * IntPow(a, b - 1)

RECURSIVE Repeat(_, _)
Repeat(s, n) == IF n <= 0 THEN <<>> ELSE s \o Repeat(s, n - 1)

\* SafeList.__mul__: the new list's cached length is the old one times n, not recomputed
SafeList__mul__(a, n) == [k |-> "list", l |-> Repeat(a.l, n), alen |-> a.alen * n]

PowTooHighMut(a, b) == Abs(a) > max_power_base /\ Abs(b) > max_power
PowTooHigh(a, b) == Abs(a) > max_power_base \/ Abs(b) > max_power

_safe_power(a, b) ==
    IF a.k # "int" \/ b.k # "int" THEN OpFail("TypeError")
    ELSE IF PowTooHigh(a.i, b.i) THEN OpFail("NumberTooHigh")
    ELSE IF b.i >= 0 THEN OpOk(IntV(IntPow(a.i, b.i)))
    ELSE IF a.i = 0 THEN OpFail("ZeroDivisionError")
    ELSE OpOk(FloatV(1, IntPow(a.i, -b.i)))

_safe_mult(a, b) ==
    IF b.k = "int" /\ b.i * approx_len_of(a) > max_const_len THEN OpFail("IterableTooLong")
    ELSE IF a.k = "int" /\ a.i * approx_len_of(b) > max_const_len THEN OpFail("IterableTooLong")
    ELSE CASE a.k = "int" /\ b.k = "int" -> OpOk(IntV(a.i * b.i))
           [] a.k = "str" /\ b.k = "int" -> OpOk(StrV(Repeat(a.s, b.i)))
           [] a.k = "int" /\ b.k = "str" -> OpOk(StrV(Repeat(b.s, a.i)))
           [] a.k = "list" /\ b.k = "int" -> OpOk(SafeList__mul__(a, b.i))
           [] a.k = "int" /\ b.k = "list" -> OpOk(SafeList__mul__(b, a.i))
           [] a.k = "tuple" /\ b.k = "int" -> OpOk(TupleV(Repeat(a.l, b.i)))
           [] a.k = "int" /\ b.k = "tuple" -> OpOk(TupleV(Repeat(b.l, a.i)))
           [] OTHER -> OpFail("TypeError")

\* str(val), as f-strings and the safe str's + use it
Digit(d) == <<"0", "1", "2", "3", "4", "5", "6", "7", "8", "9">>[d + 1]
RECURSIVE Digits(_)
Digits(n) == IF n < 10 THEN <<Digit(n)>> ELSE Append(Digits(n \div 10), Digit(n % 10))
str(v) ==
    CASE v.k = "str" -> v.s
      [] v.k = "int" -> IF v.i < 0 THEN <<"-">> \o Digits(-v.i) ELSE Digits(v.i)
      [] v.k = "NoneType" -> <<"N", "o", "n", "e">>
      [] v.k = "bool" -> IF v.b THEN <<"T", "r", "u", "e">> ELSE <<"F", "a", "l", "s", "e">>
      [] OTHER -> <<"<", v.k, ">">>

_safe_add(a, b) ==
    IF approx_len_of(a) + approx_len_of(b) > max_const_len THEN OpFail("IterableTooLong")
    ELSE CASE a.k = "int" /\ b.k = "int" -> OpOk(IntV(a.i + b.i))
           [] a.k = "str" -> OpOk(StrV(a.s \o str(b)))
           [] b.k = "str" -> OpOk(StrV(str(a) \o b.s))
           [] a.k = "list" /\ b.k = "list" -> OpOk(SafeList(a.l \o b.l))
           [] a.k = "tuple" /\ b.k = "tuple" -> OpOk(TupleV(a.l \o b.l))
           [] OTHER -> OpFail("TypeError")

op_sub(a, b) ==
    IF a.k = "int" /\ b.k = "int" THEN OpOk(IntV(a.i - b.i)) ELSE OpFail("TypeError")

\* self.operators[type(node.op)]: the binary operators of the table that the scripts use;
\* the table has no shift operators
BinOps == {"Add", "Sub", "Mult", "Pow"}
operators(op, a, b) ==
    CASE op = "Add" -> _safe_add(a, b)
      [] op = "Sub" -> op_sub(a, b)
      [] op = "Mult" -> _safe_mult(a, b)
      [] op = "Pow" -> _safe_power(a, b)
      [] OTHER -> OpFail("KeyError")

\* the comparison operators of the table that end at once
op_compare(op, a, b) ==
    CASE op = "Eq" -> OpOk(BoolV(a = b))
      [] op = "NotEq" -> OpOk(BoolV(a # b))
      [] op = "Lt" -> IF a.k = "int" /\ b.k = "int" THEN OpOk(BoolV(a.i < b.i)) ELSE OpFail("TypeError")
      [] op = "Gt" -> IF a.k = "int" /\ b.k = "int" THEN OpOk(BoolV(a.i > b.i)) ELSE OpFail("TypeError")
      [] op = "In" -> IF b.k \in {"list", "tuple"} THEN OpOk(BoolV(InSeq(a, b.l)))
                      ELSE IF a.k = "str" /\ b.k = "str"
                      THEN OpOk(BoolV(\E j \in 1..(Len(b.s) + 1) : SubSeq(b.s, j, j + Len(a.s) - 1) = a.s))
                      ELSE OpFail("TypeError")
      [] OTHER -> OpFail("KeyError")

(***************************************************************************)
(* Names.  A names dict maps every identifier the scripts use to a value   *)
(* or to Undef (no such key).  envs[1] is the interpreter's own dict, the  *)
(* others are the copies made by calls.                                    *)
(***************************************************************************)
Ids == {"x", "y", "f", "g", "h", "p", "q"}

\* the host's builtins: an unbounded iterator, an object with attributes, a callable that
\* runs execute_module, and a callable that calls its argument
BuiltinIds == {"it", "obj", "load", "apply"}
builtins(id) ==
    CASE id = "it" -> HostIter
      [] id = "obj" -> HostObj
      [] OTHER -> HostFn(id)

\* a names dict can hold any identifier as a key, a builtin's included
EmptyNames == [n \in Ids \cup BuiltinIds |-> Undef]

Lookup(d, id) == IF id \in DOMAIN d THEN d[id] ELSE Undef

\* The handler of Name, self.nodes[ast.Name]: handler 0 is _eval_name itself, which reads
\* self.names = {**builtins, **_names}; handler j is the eval_names_extra of the
\* comprehension evallers[j], which answers from its extra_names or else asks the handler
\* that was installed when it started
RECURSIVE eval_names_extra(_, _, _)
eval_names_extra(mc, id, j) ==
    IF j = 0
    THEN IF Lookup(mc.envs[mc.self._names], id) # Undef THEN mc.envs[mc.self._names][id]
         ELSE IF id \in BuiltinIds THEN builtins(id)
         ELSE Undef
    ELSE IF Lookup(mc.evallers[j].extra_names, id) # Undef THEN mc.evallers[j].extra_names[id]
         ELSE eval_names_extra(mc, id, mc.evallers[j].previous_name_evaller)

_eval_name(mc, node) ==
    LET v == eval_names_extra(mc, node.id, mc.self.nodes_Name) IN
    IF v = Undef THEN Raise(mc, "NotDefined") ELSE Ret(mc, v)

\* _assign / _assign_name: only plain names are assigned in these scripts
_assign_name(mc, name, value) ==
    IF name.id \in BuiltinIds THEN Raise(mc, "DraconicValueError")
    ELSE [mc EXCEPT !.envs[mc.self._names][name.id] = value]

Raised(mc) == mc.ctl.m = "exc"

\* parse: self._expr = expr.  A source text is known by its tag: the number of the run that
\* handed it to eval or execute, or minus the number of the module
parse(mc, tag) == [mc EXCEPT !.self._expr = tag]

\* an operator's failure as the enclosing _eval re-raises it: a limit class raised through
\* _raise_in_context becomes that class, any other Python exception is annotated
RaiseOp(mc, cls) ==
    IF cls \in LimitException THEN Raise(mc, cls) ELSE Throw(mc, AnnotatedException(cls))

NoIter == [host |-> FALSE, items |-> <<>>, pos |-> 0, gen |-> 0]
Iter(mc) == [mc EXCEPT !.ctl = [m |-> "iter", node |-> Absent, v |-> NoneV, e |-> NoExc]]
Event(mc, t, node, e, flag, n) == [mc EXCEPT !.ev = [t |-> t, node |-> node, e |-> e, flag |-> flag, n |-> n]]

(***************************************************************************)
(* The handlers of the node table: the part of each that runs before its   *)
(* first child is evaluated.  The rest of a handler is in its frame.       *)
(***************************************************************************)
_eval_constant(mc, node) ==
    IF node.c.k = "str" /\ Len(node.c.s) > max_const_len THEN Raise(mc, "IterableTooLong")
    ELSE Ret(mc, node.c)

\* self.operators[type(node.op)] is looked up before the operands are evaluated
_eval_binop(mc, node) ==
    IF node.op \notin BinOps THEN Throw(mc, AnnotatedException("KeyError"))
    ELSE Go(Push(mc, [k |-> "BinOp", node |-> node, ph |-> "left", a |-> NoneV]), node.left)

_eval_compare(mc, node) ==
    Go(Push(mc, [k |-> "Compare", node |-> node, ph |-> "left", a |-> NoneV]), node.left)

_eval_call(mc, node) ==
    Go(Push(mc, [k |-> "Call", node |-> node, ph |-> "func", fn |-> NoneV, args |-> <<>>, i |-> 0, old |-> 0,
                 old_expr |-> 0, env |-> 0, before |-> EmptyNames]),
       node.func)

AttrDeniedMut(attr) == \E j \in 1..Len(DISALLOW_METHODS) : DISALLOW_METHODS[j] = attr
AttrDenied(attr) ==
    \/ \E j \in 1..Len(DISALLOW_PREFIXES) : StartsWith(attr, DISALLOW_PREFIXES[j])
    \/ \E j \in 1..Len(DISALLOW_METHODS) : DISALLOW_METHODS[j] = attr

_eval_attribute(mc, node) ==
    IF AttrDenied(node.attr) THEN Raise(mc, "FeatureNotAvailable")
    ELSE Go(Push(mc, [k |-> "Attribute", node |-> node]), node.value)

\* _starred_unwrap: a generator over the element nodes, consumed at once by list()/tuple()
_starred_unwrap(mc, nodes, check_len) ==
    IF nodes = <<>> THEN Ret(mc, TupleV(<<>>))
    ELSE LET star == nodes[1].t = "Starred" IN
         Go(Push(mc, [k |-> "_starred_unwrap", nodes |-> nodes, i |-> 1, acc |-> <<>>,
                      check_len |-> check_len, total_len |-> 0, it |-> NoIter,
                      ph |-> IF star THEN "star" ELSE "item"]),
            IF star THEN nodes[1].value ELSE nodes[1])

_eval_tuple(mc, node) == _starred_unwrap(mc, node.elts, TRUE)

_eval_list(mc, node) == _starred_unwrap(Push(mc, [k |-> "List", node |-> node]), node.elts, TRUE)

\* A place in evallers is one run of _do_comprehension: extra_names and
\* previous_name_evaller are its closure variables.  st is "free" for an unused place,
\* "new" for a generator object that has not been started, "running" while its code is on
\* the stack, "suspended" for a generator waiting at its yield, "done" once its finally clause
\* ran.  fr is the frame of a generator that is not running.
NoFrame == [k |-> ""]
NoEvaller == [extra_names |-> EmptyNames, previous_name_evaller |-> 0, st |-> "free", fr |-> NoFrame]

\* where a new closure is put: the first unused place
alloc(mc) ==
    LET free == {k \in 1..Len(mc.evallers) : mc.evallers[k].st = "free"} IN
    IF free = {} THEN Len(mc.evallers) + 1 ELSE CHOOSE k \in free : \A j \in free : k <= j

Place(mc, k, e) ==
    [mc EXCEPT !.evallers = IF k > Len(@) THEN Append(@, e) ELSE [@ EXCEPT ![k] = e]]

\* the frame of _do_comprehension: me is its place in evallers, lazy tells a generator
\* expression (its values are yielded) from a list comprehension (they are collected)
comp_frame(node, me, lazy) ==
    [k |-> "ListComp", node |-> node, ph |-> "iter", gi |-> 1, i |-> 0, its |-> <<>>,
     acc |-> <<>>, total_len |-> 0, me |-> me, lazy |-> lazy]

\* _do_comprehension up to the first generator's iterable: the Name handler that is
\* installed is remembered and eval_names_extra takes its place
comp_enter(mc, fr) ==
    LET e == [extra_names |-> EmptyNames, previous_name_evaller |-> mc.self.nodes_Name,
              st |-> "running", fr |-> NoFrame]
        m1 == [Place(mc, fr.me, e) EXCEPT !.self.nodes_Name = fr.me] IN
    Go(Push(m1, fr), fr.node.generators[1].iter)

_eval_listcomp(mc, node) == comp_enter(mc, comp_frame(node, alloc(mc), FALSE))

\* _eval_generatorexp is a generator function: evaluating the node makes the generator
\* object and runs none of _do_comprehension
_eval_generatorexp(mc, node) ==
    LET k == alloc(mc) IN
    Ret(Place(mc, k, [NoEvaller EXCEPT !.st = "new", !.fr = comp_frame(node, k, TRUE)]), GenV(k))

_eval_lambda(mc, node) == Ret(mc, FuncV(node, mc.self._names, mc.self._expr, mc.envs[mc.self._names]))

_eval_joinedstr(mc, node) ==
    IF node.values = <<>> THEN Ret(mc, StrV(<<>>))
    ELSE Go(Push(mc, [k |-> "JoinedStr", node |-> node, i |-> 1, chars |-> <<>>]), node.values[1])

_eval_formattedvalue(mc, node) == Go(mc, node.value)

_eval_expr(mc, node) == Go(mc, node.value)

_eval_assign(mc, node) == Go(Push(mc, [k |-> "Assign", node |-> node]), node.value)

_exec_return(mc, node) ==
    IF node.value = Absent THEN Ret(mc, ReturnS(NoneV))
    ELSE Go(Push(mc, [k |-> "Return", node |-> node]), node.value)

_exec_if(mc, node) == Go(Push(mc, [k |-> "If", node |-> node]), node.test)

_exec_for(mc, node) == Go(Push(mc, [k |-> "For", node |-> node, ph |-> "iter", it |-> NoIter]), node.iter)

_exec_while(mc, node) == Go(Push(mc, [k |-> "While", node |-> node, ph |-> "test"]), node.test)

_eval_functiondef(mc, node) ==
    IF node.name \in BuiltinIds THEN Raise(mc, "DraconicValueError")
    ELSE Ret([mc EXCEPT !.envs[mc.self._names][node.name] = FuncV(node, mc.self._names, mc.self._expr, mc.envs[mc.self._names])],
             NoneV)

_exec_try(mc, node) ==
    _exec(Push(mc, [k |-> "Try", node |-> node, ph |-> "body", i |-> 0, pend |-> CtlIdle,
                    bexc |-> NoExc, hran |-> FALSE, hi |-> 0, fin |-> 0, log |-> <<>>, tested |-> <<>>,
                    mexc |-> NoExc]),
          node.body)

_exec_match(mc, node) ==
    Go(Push(mc, [k |-> "Match", node |-> node, ph |-> "subject", ci |-> 0, subject |-> NoneV, names |-> {}]),
       node.subject)

\* self.nodes[type(node)](node); a class the table does not hold is not available
nodes(mc, node) ==
    CASE node.t = "Expr" -> _eval_expr(mc, node)
      [] node.t = "Constant" -> _eval_constant(mc, node)
      [] node.t = "JoinedStr" -> _eval_joinedstr(mc, node)
      [] node.t = "FormattedValue" -> _eval_formattedvalue(mc, node)
      [] node.t = "Name" -> _eval_name(mc, node)
      [] node.t = "BinOp" -> _eval_binop(mc, node)
      [] node.t = "Compare" -> _eval_compare(mc, node)
      [] node.t = "Call" -> _eval_call(mc, node)
      [] node.t = "Attribute" -> _eval_attribute(mc, node)
      [] node.t = "Tuple" -> _eval_tuple(mc, node)
      [] node.t = "List" -> _eval_list(mc, node)
      [] node.t = "ListComp" -> _eval_listcomp(mc, node)
      [] node.t = "GeneratorExp" -> _eval_generatorexp(mc, node)
      [] node.t = "Starred" -> Raise(mc, "DraconicSyntaxError")
      [] node.t = "Assign" -> _eval_assign(mc, node)
      [] node.t = "Return" -> _exec_return(mc, node)
      [] node.t = "If" -> _exec_if(mc, node)
      [] node.t = "For" -> _exec_for(mc, node)
      [] node.t = "While" -> _exec_while(mc, node)
      [] node.t = "Break" -> Ret(mc, BreakS)
      [] node.t = "Continue" -> Ret(mc, ContinueS)
      [] node.t = "Pass" -> Ret(mc, NoneV)
      [] node.t = "FunctionDef" -> _eval_functiondef(mc, node)
      [] node.t = "Lambda" -> _eval_lambda(mc, node)
      [] node.t = "Try" -> _exec_try(mc, node)
      [] node.t = "Match" -> _exec_match(mc, node)
      [] OTHER -> Raise(mc, "FeatureNotAvailable")

\* DraconicInterpreter._eval: count the visit, refuse it past the ceiling, else dispatch
StmtLimitMut(n) == n > max_statements + 1
StmtLimit(n) == n > max_statements

_eval(mc0, node) ==
    LET mc == [mc0 EXCEPT !.self._num_stmts = @ + 1] IN
    IF StmtLimit(mc.self._num_stmts)
    THEN Event(Raise(mc, "TooManyStatements"), "visit", node, NoExc, FALSE, mc.self._num_stmts)
    ELSE Event(nodes([mc EXCEPT !.hist.handled = @ + 1], node), "visit", node, NoExc, TRUE,
               mc.self._num_stmts)

(***************************************************************************)
(* The rest of each handler: what it does when a child _eval/_exec returns *)
(* the value v.  fr is the handler's frame, on top of mc.stk.              *)
(***************************************************************************)
_eval_binop_k(mc, fr, v) ==
    IF fr.ph = "left" THEN Go(SetTop(mc, [fr EXCEPT !.ph = "right", !.a = v]), fr.node.right)
    ELSE LET r == operators(fr.node.op, fr.a, v) IN
         IF r.cls = "" THEN Ret(Pop(mc), r.v) ELSE RaiseOp(Pop(mc), r.cls)

\* In is op.contains(y, x): on the host's iterator it walks the iterator until x turns up
_eval_compare_k(mc, fr, v) ==
    IF fr.ph = "left" THEN Go(SetTop(mc, [fr EXCEPT !.ph = "right", !.a = v]), fr.node.comparators[1])
    ELSE IF fr.node.ops[1] = "In" /\ v.k = "hostiter" THEN Iter(SetTop(mc, [fr EXCEPT !.ph = "contains"]))
    ELSE LET r == op_compare(fr.node.ops[1], fr.a, v) IN
         IF r.cls = "" THEN Ret(Pop(mc), r.v) ELSE RaiseOp(Pop(mc), r.cls)

\* the attributes of the values the scripts meet; the host's object has private ones
Chars_hp == <<"h", "p">>
Chars__hp == <<"_", "h", "p">>
Chars_func_hp == <<"f", "u", "n", "c", "_", "h", "p">>
Chars_format == <<"f", "o", "r", "m", "a", "t">>
getattr(v, attr) ==
    CASE v.k = "hostobj" /\ attr = Chars_hp -> IntV(1)
      [] v.k = "hostobj" /\ attr \in {Chars__hp, Chars_func_hp} -> IntV(2)
      [] v.k \in {"str", "hostobj"} /\ attr = Chars_format -> HostFn("format")
      [] OTHER -> Undef

_eval_attribute_k(mc, fr, v) ==
    LET a == getattr(v, fr.node.attr) IN
    IF a = Undef THEN Raise(Pop(mc), "NotDefined") ELSE Ret(Pop(mc), a)

_eval_list_k(mc, fr, v) == Ret(Pop(mc), SafeList(v.l))

\* _starred_unwrap after element i is done: the next element, or the end of the generator
unwrap_next(mc, fr) ==
    IF fr.i >= Len(fr.nodes) THEN Ret(Pop(mc), TupleV(fr.acc))
    ELSE LET n == fr.nodes[fr.i + 1]
             star == n.t = "Starred" IN
         Go(SetTop(mc, [fr EXCEPT !.i = fr.i + 1, !.it = NoIter, !.ph = IF star THEN "star" ELSE "item"]),
            IF star THEN n.value ELSE n)

\* one yielded value of _starred_unwrap: the length check, then the yield
unwrap_yield(mc, fr, retval) ==
    LET total == fr.total_len + approx_len_of(retval) + 1 IN
    IF fr.check_len /\ total > max_const_len THEN Raise(Pop(mc), "IterableTooLong")
    ELSE SetTop(mc, [fr EXCEPT !.acc = Append(@, retval),
                               !.total_len = IF fr.check_len THEN total ELSE @])

_starred_unwrap_k(mc, fr, v) ==
    IF fr.ph = "item"
    THEN LET m1 == unwrap_yield(mc, fr, v) IN
         IF Raised(m1) THEN m1 ELSE unwrap_next(m1, Top(m1))
    ELSE IF ~Iterable(v) THEN Throw(Pop(mc), AnnotatedException("TypeError"))
    ELSE Iter(SetTop(mc, [fr EXCEPT !.ph = "loop", !.it = IterOf(v)]))

_eval_joinedstr_k(mc, fr, v) ==
    LET chars == fr.chars \o str(v) IN
    IF Len(chars) > max_const_len THEN Raise(Pop(mc), "IterableTooLong")
    ELSE IF fr.i >= Len(fr.node.values) THEN Ret(Pop(mc), StrV(chars))
    ELSE Go(SetTop(mc, [fr EXCEPT !.i = fr.i + 1, !.chars = chars]), fr.node.values[fr.i + 1])

_eval_assign_k(mc, fr, v) ==
    LET m1 == _assign_name(Pop(mc), fr.node.targets[1], v) IN
    IF Raised(m1) THEN m1 ELSE Ret(m1, NoneV)

_exec_return_k(mc, fr, v) == Ret(Pop(mc), ReturnS(v))

_exec_if_k(mc, fr, v) == _exec(Pop(mc), IF Truthy(v) THEN fr.node.body ELSE fr.node.orelse)

(***************************************************************************)
(* Loops.  Every iteration passes through CountLoop: the counter goes up   *)
(* and the iteration is refused when the counter is past the ceiling.      *)
(***************************************************************************)
LoopLimitMut(n) == n > max_loops + 1
LoopLimit(n) == n > max_loops

\* self._loops += 1 and the check; kind is the construct that iterates, cls what it raises.
\* The mark left on the history is the iteration and whether it was let through.
CountLoop(mc, kind, node) ==
    LET n == mc.self._loops + 1
        m1 == [mc EXCEPT !.self._loops = n] IN
    IF LoopLimit(n) THEN Event(m1, "iter", node, NoExc, FALSE, n)
    ELSE Event([m1 EXCEPT !.hist.iters = @ + 1, !.hist.kinds = @ \cup {kind}], "iter", node, NoExc, TRUE, n)

\* isinstance(retval, _Break): the loop is left and its else clause is skipped
brokeMut(v) == FALSE
broke(v) == v.k = "_Break"

_exec_for_k(mc, fr, v) ==
    IF fr.ph = "iter"
    THEN IF ~Iterable(v) THEN Throw(Pop(mc), AnnotatedException("TypeError"))
         ELSE Iter(SetTop(mc, [fr EXCEPT !.ph = "loop", !.it = IterOf(v)]))
    ELSE IF v.k = "_Return" THEN Ret(Pop(mc), v)
    ELSE IF broke(v) THEN Ret(Pop(mc), NoneV)
    ELSE Iter(mc)

\* the for statement got the next item of its iterator
_exec_for_item(mc, fr, item) ==
    LET m1 == CountLoop(Advance(mc, fr.it), "for", fr.node) IN
    IF ~m1.ev.flag THEN Raise(Pop(m1), "TooManyStatements")
    ELSE LET m2 == _assign_name(m1, fr.node.target, item) IN
         IF Raised(m2) THEN Pop(m2)
         ELSE _exec(SetTop(m2, [fr EXCEPT !.ph = "body", !.it = Taken(fr.it)]), fr.node.body)

\* its iterator has no more items
_exec_for_stop(mc, fr) == _exec(Pop(mc), fr.node.orelse)

\* the for statement takes the next item
_exec_for_next(mc, fr) ==
    IF Exhausted(fr.it) THEN _exec_for_stop(mc, fr) ELSE _exec_for_item(mc, fr, NextItem(mc, fr.it))

_exec_while_k(mc, fr, v) ==
    IF fr.ph = "test"
    THEN IF ~Truthy(v) THEN _exec(Pop(mc), fr.node.orelse)
         ELSE LET m1 == CountLoop(mc, "while", fr.node) IN
              IF ~m1.ev.flag THEN Raise(Pop(m1), "TooManyStatements")
              ELSE _exec(SetTop(m1, [fr EXCEPT !.ph = "body"]), fr.node.body)
    ELSE IF v.k = "_Return" THEN Ret(Pop(mc), v)
    ELSE IF broke(v) THEN Ret(Pop(mc), NoneV)
    ELSE Go(SetTop(mc, [fr EXCEPT !.ph = "test"]), fr.node.test)

\* a starred element of _starred_unwrap got the next item of its iterable
_starred_unwrap_item(mc, fr, item) ==
    LET m1 == CountLoop(Advance(mc, fr.it), "starred", fr.nodes[fr.i]) IN
    IF ~m1.ev.flag THEN Raise(Pop(m1), "IterableTooLong")
    ELSE LET m2 == unwrap_yield(m1, [fr EXCEPT !.it = Taken(fr.it)], item) IN
         IF Raised(m2) THEN m2 ELSE Iter(m2)

\* a starred element of _starred_unwrap takes the next item of its iterable
_starred_unwrap_next(mc, fr) ==
    IF Exhausted(fr.it) THEN unwrap_next(mc, fr)
    ELSE _starred_unwrap_item(mc, fr, NextItem(mc, fr.it))

\* op.contains on the host's iterator takes the next item
contains_next(mc, fr) ==
    LET it == IterOf(HostIter)
        item == NextItem(mc, it)
        m1 == Advance(mc, it) IN
    IF item = fr.a THEN Ret(Pop(m1), BoolV(TRUE)) ELSE Iter(m1)

(***************************************************************************)
(* Calls.                                                                  *)
(***************************************************************************)
\* the user calls that are running: the Call frames that are inside _function_call_context
RECURSIVE ActiveCalls(_)
ActiveCalls(st) ==
    IF st = <<>> THEN 0
    ELSE (IF Head(st).k = "Call" /\ Head(st).ph \in {"bind", "body"} THEN 1 ELSE 0) + ActiveCalls(Tail(st))

DepthLimitMut(d) == d > max_recursion_depth + 1
DepthLimit(d) == d > max_recursion_depth

\* __functiondef._outer_scope_names, as the call finds it
_outer_scope_namesMut(mc, fnv) == fnv.snap
_outer_scope_names(mc, fnv) == mc.envs[fnv.env]

\* the mark a call leaves on the history when it ends: the Call node, the function, and
\* what the caller's names dict held when the call began
call_mark(fr, v) == [t |-> "call_end", call |-> fr.node, fn |-> fr.fn.node, before |-> fr.before, ret |-> v]

\* _outer_scope_names.copy(): the call's own names dict is a new one
copyMut(mc, fnv) == fnv.env
copy(mc, fnv) == Len(mc.envs) + 1

\* leaving _function_call_context: its finally clause
call_exitMut(mc, fr) == [mc EXCEPT !.self._depth = @ - 1]
call_exit(mc, fr) == [mc EXCEPT !.self._names = fr.old, !.self._expr = fr.old_expr, !.self._depth = @ - 1]

\* _bind_function_args from parameter fr.i on, then the body (_exec_function / _exec_lambda).
\* A default is evaluated in the callee's names; a TypeError leaves through the finally
\* clause and is annotated at the Call node.
\* the test of _bind_function_args for the parameter fr.i: the call gave it a value
suppliedMut(fr) == FALSE
supplied(fr) == fr.i <= Len(fr.args)

RECURSIVE _bind_function_args(_)
_bind_function_args(mc) ==
    LET fr == Top(mc)
        fn == fr.fn.node
        numpos == Len(fn.params)
        default_i == Len(fn.defaults) - numpos + fr.i IN
    IF fr.i > numpos
    THEN IF fr.fn.k = "_Lambda" THEN Go(SetTop(mc, [fr EXCEPT !.ph = "body"]), fn.body[1])
         ELSE _exec(SetTop(mc, [fr EXCEPT !.ph = "body"]), fn.body)
    ELSE IF supplied(fr)
    THEN _bind_function_args(SetTop([mc EXCEPT !.envs[mc.self._names][fn.params[fr.i]] = fr.args[fr.i]],
                                    [fr EXCEPT !.i = fr.i + 1]))
    ELSE IF default_i < 1 THEN Throw(Pop(call_exit(mc, fr)), AnnotatedException("TypeError"))
    ELSE Go(mc, fn.defaults[default_i])

\* _function_call_context: the depth check comes before the try/finally that restores it
_function_call_context(mc, fnv, args) ==
    LET fr == Top(mc)
        active == ActiveCalls(mc.stk)
        m1 == [mc EXCEPT !.self._depth = @ + 1] IN
    IF DepthLimit(m1.self._depth)
    THEN Event(Raise(Pop(m1), "TooMuchRecursion"), "call", fr.node, NoExc, FALSE, active)
    ELSE LET m2 == [m1 EXCEPT !.envs = Append(@, _outer_scope_names(mc, fnv)), !.self._names = copy(mc, fnv),
                              !.self._expr = fnv.expr]
             m3 == SetTop(m2, [fr EXCEPT !.ph = "bind", !.fn = fnv, !.args = args, !.i = 1,
                                         !.old = mc.self._names, !.old_expr = mc.self._expr,
                                         !.env = copy(mc, fnv), !.before = mc.envs[mc.self._names]]) IN
         IF Len(args) > Len(fnv.node.params)
         THEN Event(Throw(Pop(call_exit(m3, Top(m3))), AnnotatedException("TypeError")),
                    "call", fr.node, NoExc, TRUE, active)
         ELSE Event(_bind_function_args(m3), "call", fr.node, NoExc, TRUE, active)

\* the module sources the host's load() can run through execute_module
Modules == <<
    <<Assign(Name("y"), Num(1))>>,
    <<While(Num(1), <<Pass>>, <<>>)>>,
    <<Return(Absent)>>,
    <<Try(<<Pass, Pass, Pass, Pass, Pass, Pass, Pass, Pass, Pass, Pass, Pass, Pass, Pass, Pass, Pass, Pass, Pass, Pass, Pass, Pass, Pass, Pass, Pass, Pass, Pass, Pass, Pass>>, <<>>, <<>>, <<Pass>>)>>
>>

\* func(*args): a user function, or one of the host's callables
call(mc, fnv, args) ==
    LET fr == Top(mc) IN
    CASE fnv.k \in {"_Function", "_Lambda"} -> _function_call_context(mc, fnv, args)
      [] fnv.k = "hostfn" /\ fnv.name = "apply" /\ Len(args) = 1 /\ args[1].k \in {"_Function", "_Lambda"} ->
            _function_call_context(mc, args[1], <<>>)
      [] fnv.k = "hostfn" /\ fnv.name = "load" /\ Len(args) = 1 /\ args[1].k = "int"
           /\ args[1].i \in 1..Len(Modules) ->
            _exec(Push(SetTop(parse(mc, 0 - args[1].i), [fr EXCEPT !.ph = "host"]),
                       [k |-> "execute_module", old_expr |-> mc.self._expr, tag |-> 0 - args[1].i]),
                  Modules[args[1].i])
      [] fnv.k = "hostfn" /\ fnv.name = "load" /\ Len(args) = 1 /\ args[1].k = "int"
           /\ args[1].i \notin 1..Len(Modules) ->
            Throw(Pop(mc), AnnotatedException("IndexError"))
      [] OTHER -> Throw(Pop(mc), AnnotatedException("TypeError"))

_eval_call_k(mc, fr, v) ==
    CASE fr.ph = "func" -> _starred_unwrap(SetTop(mc, [fr EXCEPT !.ph = "args", !.fn = v]), fr.node.args, FALSE)
      [] fr.ph = "args" -> call(mc, fr.fn, v.l)
      [] fr.ph = "bind" ->
            _bind_function_args(SetTop([mc EXCEPT !.envs[mc.self._names][fr.fn.node.params[fr.i]] = v],
                                       [fr EXCEPT !.i = fr.i + 1]))
      [] fr.ph = "body" ->
            LET m1 == Event(Pop(call_exit(mc, fr)), "call_end", call_mark(fr, v), NoExc, TRUE, fr.env) IN
            IF fr.fn.k = "_Lambda" THEN Ret(m1, v)
            ELSE IF LoopControl(v)
            THEN Throw(m1, NestedException(RaisedAt(Exc("DraconicSyntaxError"), mc.stk), fr.node))
            ELSE Ret(m1, IF v.k = "_Return" THEN v.value ELSE NoneV)
      [] OTHER -> Ret(Pop(mc), v)

\* an exception reaches _eval_call: out of a callee it has left _function_call_context and
\* is wrapped in a NestedException; out of func or the arguments it passes
_eval_call_x(mc, fr, e) ==
    CASE fr.ph \in {"bind", "body"} ->
            Event(Throw(Pop(call_exit(mc, fr)), NestedException(e, fr.node)), "call_end", call_mark(fr, NoneV), e, FALSE, fr.env)
      [] fr.ph = "host" -> Throw(Pop(mc), NestedException(e, fr.node))
      [] OTHER -> Throw(Pop(mc), e)

\* execute_module returns None to the host's callable; a sentinel is a syntax error
execute_module_k(mc, fr, v) ==
    LET m1 == [mc EXCEPT !.self._expr = fr.old_expr] IN
    IF IsSentinel(v) THEN Raise(Pop(m1), "DraconicSyntaxError") ELSE Ret(Pop(m1), NoneV)

\* its finally clause when an exception passes
execute_module_x(mc, fr, e) == Pop([mc EXCEPT !.self._expr = fr.old_expr])

(***************************************************************************)
(* Comprehensions and generator expressions (_do_comprehension).  its      *)
(* holds the running iterators of the generator clauses, outermost first.  *)
(* A generator expression runs on the stack above the loop that asked it   *)
(* for an item, and leaves the stack at its yield.                         *)
(***************************************************************************)
\* the finally clause of _do_comprehension puts the Name handler back that was installed
\* when this comprehension started, whatever is installed now
comp_exit(mc) ==
    LET me == Top(mc).me IN
    Pop([mc EXCEPT !.self.nodes_Name = mc.evallers[me].previous_name_evaller,
                   !.evallers[me].st = "done", !.evallers[me].fr = NoFrame])

\* after the ifs of clause gi have passed: the next clause, or the value
comp_proceed(mc, fr) ==
    IF Len(fr.node.generators) > fr.gi
    THEN Go(SetTop(mc, [fr EXCEPT !.ph = "iter", !.gi = fr.gi + 1]), fr.node.generators[fr.gi + 1].iter)
    ELSE Go(SetTop(mc, [fr EXCEPT !.ph = "elt"]), fr.node.elt)

\* do_generator got the next item of clause gi
do_generator_item(mc, fr, item) ==
    LET it == fr.its[fr.gi]
        gen == fr.node.generators[fr.gi]
        m1 == CountLoop(Advance(mc, it), "comprehension", fr.node) IN
    IF ~m1.ev.flag THEN Raise(comp_exit(m1), "IterableTooLong")
    ELSE LET m2 == [m1 EXCEPT !.evallers[fr.me].extra_names[gen.target.id] = item]
             f2 == [fr EXCEPT !.its[fr.gi] = Taken(it), !.i = 1] IN
         IF gen.ifs = <<>> THEN comp_proceed(m2, f2)
         ELSE Go(SetTop(m2, [f2 EXCEPT !.ph = "ifs"]), gen.ifs[1])

\* What the code that iterates a generator object does when the generator ends: a for
\* statement, a starred element, or a clause of another comprehension.  The iterator of
\* clause gi of do_generator has no more items: the clause before it goes on; after the
\* first clause a list comprehension returns its list and a generator expression ends.
RECURSIVE do_generator_stop(_, _)
stop_to(mc) ==
    LET fr == Top(mc) IN
    CASE fr.k = "For" -> _exec_for_stop(mc, fr)
      [] fr.k = "_starred_unwrap" -> unwrap_next(mc, fr)
      [] fr.k = "ListComp" -> do_generator_stop(mc, fr)

do_generator_stop(mc, fr) ==
    IF fr.gi > 1 THEN Iter(SetTop(mc, [fr EXCEPT !.gi = fr.gi - 1, !.its = SubSeq(@, 1, fr.gi - 1)]))
    ELSE IF fr.lazy THEN stop_to(comp_exit(mc))
    ELSE Ret(comp_exit(mc), SafeList(fr.acc))

\* do_generator takes the next item of clause gi
do_generator_next(mc, fr) ==
    IF Exhausted(fr.its[fr.gi]) THEN do_generator_stop(mc, fr)
    ELSE do_generator_item(mc, fr, NextItem(mc, fr.its[fr.gi]))

\* a generator object yields v to the code that asked for an item
yield_to(mc, v) ==
    LET fr == Top(mc) IN
    CASE fr.k = "For" -> _exec_for_item(mc, fr, v)
      [] fr.k = "_starred_unwrap" -> _starred_unwrap_item(mc, fr, v)
      [] fr.k = "ListComp" -> do_generator_item(mc, fr, v)

\* yield value: a generator expression leaves the stack and keeps its frame and its Name
\* handler; a list comprehension keeps the value and goes on
emit(mc, fr, v) ==
    IF fr.lazy
    THEN yield_to(Pop([mc EXCEPT !.evallers[fr.me].st = "suspended", !.evallers[fr.me].fr = fr]), v)
    ELSE Iter(SetTop(mc, [fr EXCEPT !.acc = Append(@, v)]))

_eval_listcomp_k(mc, fr, v) ==
    CASE fr.ph = "iter" ->
            IF ~Iterable(v) THEN Throw(comp_exit(mc), AnnotatedException("TypeError"))
            ELSE Iter(SetTop(mc, [fr EXCEPT !.ph = "loop", !.its = Append(@, IterOf(v)),
                                            !.total_len = IF fr.gi = 1 THEN @ ELSE 0]))
      [] fr.ph = "ifs" ->
            IF ~Truthy(v) THEN Iter(mc)
            ELSE IF fr.i < Len(fr.node.generators[fr.gi].ifs)
            THEN Go(SetTop(mc, [fr EXCEPT !.i = fr.i + 1]), fr.node.generators[fr.gi].ifs[fr.i + 1])
            ELSE comp_proceed(mc, fr)
      [] OTHER ->
            LET total == fr.total_len + approx_len_of(v) + 1 IN
            IF total > max_const_len THEN Raise(comp_exit(mc), "IterableTooLong")
            ELSE emit(mc, [fr EXCEPT !.total_len = total], v)

\* next() on the generator object g, asked by the frame on top of the stack: a finished one
\* has nothing more, a new one starts _do_comprehension, a suspended one goes on after its
\* yield, and one that is running refuses
gen_next(mc, g) ==
    LET e == mc.evallers[g] IN
    CASE e.st = "new" -> comp_enter(mc, e.fr)
      [] e.st = "suspended" ->
            Iter(Push([mc EXCEPT !.evallers[g].st = "running", !.evallers[g].fr = NoFrame], e.fr))
      [] e.st = "running" -> Throw(mc, AnnotatedException("ValueError"))
      [] OTHER -> stop_to(mc)

(***************************************************************************)
(* try (_exec_try).  pend is what the statement will do once the finally   *)
(* clause is through: return a value or raise.  The other fields of its    *)
(* frame are history: bexc what the body raised, hran whether a handler    *)
(* body was entered, fin how often the finally clause was entered, log the *)
(* clauses that ran with what each ended in, tested the handlers tested,   *)
(* mexc what the except clause itself raised while it chose a handler.     *)
(***************************************************************************)
\* the finally clause starts, with the outcome so far pending
try_finally(mc, fr, pend) ==
    _exec(SetTop(mc, [fr EXCEPT !.ph = "finally", !.pend = pend, !.fin = @ + 1]), fr.node.finalbody)

\* type(exc).__name__ as the characters a handler's string literal is compared with
__name__(cls) ==
    CASE cls = "NotDefined" -> <<"N", "o", "t", "D", "e", "f", "i", "n", "e", "d">>
      [] cls = "TypeError" -> <<"T", "y", "p", "e", "E", "r", "r", "o", "r">>
      [] cls = "KeyError" -> <<"K", "e", "y", "E", "r", "r", "o", "r">>
      [] OTHER -> <<cls>>

\* type(exc).__name__ == name, exc being .original for a wrapper
ExcMatchesMut(name, e) == name = __name__(e.cls)
ExcMatches(name, e) == name = __name__(e.orig)

\* isinstance(exc, LimitException), exc being .original for a wrapper
IsLimitMut(e) == e.cls \in LimitException
IsLimit(e) == e.orig \in LimitException

\* the except clause raises e itself
except_raises(mc, fr, e) ==
    LET e1 == RaisedAt(e, mc.stk) IN try_finally(mc, [fr EXCEPT !.mexc = e1], CtlExc(e1))

\* _except_handler: 'as X' is refused, else the handler's body runs
_except_handler(mc, fr, hi) ==
    LET h == fr.node.handlers[hi] IN
    IF h.name # "" THEN except_raises(mc, fr, Exc("FeatureNotAvailable"))
    ELSE _exec(SetTop(mc, [fr EXCEPT !.ph = "handler", !.hran = TRUE, !.hi = hi]), h.body)

\* the handlers from handler hi on, for the exception fr.bexc (its .original when it is a
\* wrapper): the first that matches runs, and without one the exception is raised again.
\* What _except_handler_matches itself raises is raised inside the except clause.  A
\* tuple of string literals is evaluated by _eval_tuple before the test.
RECURSIVE handlers_from(_, _, _)
handlers_from(mc, fr0, hi) ==
    IF hi > Len(fr0.node.handlers) THEN try_finally(mc, fr0, CtlExc(fr0.bexc))
    ELSE LET h == fr0.node.handlers[hi]
             fr == [fr0 EXCEPT !.tested = Append(@, hi)]
             bare == h.type = Absent
             isstr == ~bare /\ h.type.t = "Constant" /\ h.type.c.k = "str"
             istuple == ~bare /\ h.type.t = "Tuple" IN
         IF bare THEN _except_handler(mc, fr, hi)
         ELSE IF isstr
         THEN IF Len(h.type.c.s) > max_const_len THEN except_raises(mc, fr, Exc("IterableTooLong"))
              ELSE IF ExcMatches(h.type.c.s, fr.bexc) THEN _except_handler(mc, fr, hi)
              ELSE handlers_from(mc, fr, hi + 1)
         ELSE IF istuple
         THEN IF \E j \in 1..Len(h.type.elts) : ~(h.type.elts[j].t = "Constant" /\ h.type.elts[j].c.k = "str")
              THEN except_raises(mc, fr, Exc("FeatureNotAvailable"))
              ELSE _starred_unwrap(SetTop(mc, [fr EXCEPT !.ph = "match", !.hi = hi]), h.type.elts, TRUE)
         ELSE except_raises(mc, fr, Exc("FeatureNotAvailable"))

\* the except clause for the exception e the body raised: a limit error is raised again at
\* once
try_except(mc, fr, e) ==
    IF IsLimit(e) THEN try_finally(mc, fr, CtlExc(e)) ELSE handlers_from(mc, fr, 1)

\* the statement ends with the outcome out, mc.ctl being what the finally clause ended in;
\* the mark on the history says what its body raised, whether a handler body ran, how
\* often the finally clause was entered, and what each clause ended in
try_done(mc, fr, out) ==
    Event(Pop([mc EXCEPT !.ctl = out]), "try_done",
          [t |-> "try_done", node |-> fr.node, tested |-> fr.tested, pend |-> fr.pend, mexc |-> fr.mexc,
           log |-> Append(fr.log, [ph |-> "finally", hi |-> 0, out |-> mc.ctl])],
          fr.bexc, fr.hran, fr.fin)

\* a sentinel out of the finally clause is the statement's result
FinallyWinsMut(v) == FALSE
FinallyWins(v) == IsSentinel(v)

\* after the body without an exception: its sentinel is returned, else the else clause runs
SkipsElseMut(v) == FALSE
SkipsElse(v) == IsSentinel(v)

_exec_try_k(mc, fr0, v) ==
    LET fr == [fr0 EXCEPT !.log = IF fr0.ph \in {"match", "finally"} THEN @
                                 ELSE Append(@, [ph |-> fr0.ph, hi |-> fr0.hi, out |-> CtlVal(v)])] IN
    CASE fr.ph = "body" ->
            IF SkipsElse(v) THEN try_finally(mc, fr, CtlVal(v))
            ELSE _exec(SetTop(mc, [fr EXCEPT !.ph = "orelse"]), fr.node.orelse)
      [] fr.ph = "match" ->
            IF \E j \in 1..Len(v.l) : ExcMatches(v.l[j].s, fr.bexc) THEN _except_handler(mc, fr, fr.hi)
            ELSE handlers_from(mc, fr, fr.hi + 1)
      [] fr.ph \in {"orelse", "handler"} ->
            try_finally(mc, fr, CtlVal(IF IsSentinel(v) THEN v ELSE NoneV))
      [] OTHER ->
            IF FinallyWins(v) THEN try_done(mc, fr, mc.ctl) ELSE try_done(mc, fr, fr.pend)

_exec_try_x(mc, fr0, e) ==
    LET fr == [fr0 EXCEPT !.log = IF fr0.ph \in {"match", "finally"} THEN @
                                 ELSE Append(@, [ph |-> fr0.ph, hi |-> fr0.hi, out |-> CtlExc(e)])] IN
    CASE fr.ph = "body" -> try_except(mc, [fr EXCEPT !.bexc = e], e)
      [] fr.ph = "match" -> except_raises(mc, fr, e)
      [] fr.ph \in {"orelse", "handler"} -> try_finally(mc, fr, CtlExc(e))
      [] OTHER -> try_done(mc, fr, mc.ctl)

(***************************************************************************)
(* match (_exec_match, _patma).  A pattern of these scripts binds names to *)
(* the subject itself, so the bindings of a case are a set of names.       *)
(***************************************************************************)
\* the names a pattern binds when it matches
RECURSIVE bound_names(_)
bound_names(pattern) ==
    IF pattern.t # "MatchAs" \/ pattern.name = "" THEN {}
    ELSE {pattern.name} \cup (IF pattern.pattern = Absent THEN {} ELSE bound_names(pattern.pattern))

\* dict.update with the bindings of a case: every name of the case gets the subject
updateMut(d, names, v) == d
update(d, names, v) == [id \in DOMAIN d |-> IF id \in names THEN v ELSE d[id]]

\* the mark of a case on the history: the case, the subject, and the cases after it
case_mark(fr) ==
    LET c == fr.node.cases[fr.ci] IN
    [t |-> "match_case", pattern |-> c.pattern, guard |-> c.guard, subject |-> fr.subject,
     rest |-> SubSeq(fr.node.cases, fr.ci + 1, Len(fr.node.cases))]

\* the pattern of case fr.ci matched: self._names.update(bindings), then the guard, then
\* the body
match_bind(mc, fr, names) ==
    LET c == fr.node.cases[fr.ci]
        m1 == [mc EXCEPT !.envs[mc.self._names] = update(@, names, fr.subject)]
        mark == case_mark(fr) IN
    IF c.guard # Absent
    THEN Event(Go(SetTop(m1, [fr EXCEPT !.ph = "guard"]), c.guard), "bind", mark, NoExc, TRUE, fr.ci)
    ELSE Event(_exec(Pop(m1), c.body), "bind", mark, NoExc, FALSE, fr.ci)

\* _patma: the pattern's class is looked up, the statement counter goes up without a check,
\* and the pattern's handler runs; names are the bindings the enclosing patterns add
RECURSIVE _patma(_, _, _, _)
_patma(mc, fr, pattern, names) ==
    IF pattern.t \notin {"MatchValue", "MatchAs"} THEN Raise(Pop(mc), "FeatureNotAvailable")
    ELSE LET m1 == [mc EXCEPT !.self._num_stmts = @ + 1] IN
         CASE pattern.t = "MatchValue" ->
                Go(SetTop(m1, [fr EXCEPT !.ph = "value", !.names = names]), pattern.value)
           [] pattern.t = "MatchAs" /\ pattern.name = "" -> match_bind(m1, fr, names)
           [] pattern.t = "MatchAs" /\ pattern.name # "" /\ pattern.pattern = Absent ->
                match_bind(m1, fr, names \cup {pattern.name})
           [] OTHER -> _patma(m1, fr, pattern.pattern, names \cup {pattern.name})

\* the cases in source order from case ci on; without a match the statement gives None
match_next(mc, fr, ci) ==
    IF ci > Len(fr.node.cases) THEN Ret(Pop(mc), NoneV)
    ELSE LET f1 == [fr EXCEPT !.ci = ci, !.names = {}] IN
         _patma(SetTop(mc, f1), f1, fr.node.cases[ci].pattern, {})

\* the mark of a guard's answer is the case it belongs to and whether it let the body run
_exec_match_k(mc, fr, v) ==
    LET c == fr.node.cases[fr.ci]
        mark == case_mark(fr) IN
    CASE fr.ph = "subject" -> LET f1 == [fr EXCEPT !.subject = v] IN match_next(SetTop(mc, f1), f1, 1)
      [] fr.ph = "value" ->
            IF fr.subject = v THEN match_bind(mc, fr, fr.names) ELSE match_next(mc, fr, fr.ci + 1)
      [] OTHER ->
            IF Truthy(v) THEN Event(_exec(Pop(mc), c.body), "guard", mark, NoExc, TRUE, fr.ci)
            ELSE Event(match_next(mc, fr, fr.ci + 1), "guard", mark, NoExc, FALSE, fr.ci)

(***************************************************************************)
(* The evaluator's steps.                                                  *)
(***************************************************************************)
\* the names dicts that outlive a run: the interpreter's own, and the callees' copies only
\* while a function that closed over one is still reachable from it
Reachable(es, v) ==
    \/ v.k \in {"_Function", "_Lambda"} /\ v.env # 1
    \/ \E id \in DOMAIN es[1] : es[1][id].k \in {"_Function", "_Lambda"} /\ es[1][id].env # 1
Collect(es, v) == IF Reachable(es, v) THEN es ELSE <<es[1]>>

\* eval / execute hand their result to the host: a _Return gives its value, a stray
\* break or continue is a syntax error, and execute drops any other value
Finish(mc, entry, v) ==
    LET out == IF LoopControl(v) THEN [k |-> "exc", v |-> NoneV, e |-> Exc("DraconicSyntaxError")]
               ELSE IF v.k = "_Return" THEN [k |-> "ok", v |-> v.value, e |-> NoExc]
               ELSE [k |-> "ok", v |-> IF entry = "eval" THEN v ELSE NoneV, e |-> NoExc] IN
    [mc EXCEPT !.ctl = CtlIdle, !.stk = <<>>, !.result = out, !.envs = Collect(@, out.v)]

Fail(mc, e) ==
    [mc EXCEPT !.ctl = CtlIdle, !.stk = <<>>, !.result = [k |-> "exc", v |-> NoneV, e |-> e],
               !.envs = Collect(@, NoneV)]

\* a child returned v to the suspended handler on top of the stack
resume(mc, fr, v) ==
    CASE fr.k = "top" -> Finish(mc, fr.entry, v)
      [] fr.k = "_exec" -> _exec_k(mc, fr, v)
      [] fr.k = "BinOp" -> _eval_binop_k(mc, fr, v)
      [] fr.k = "Compare" -> _eval_compare_k(mc, fr, v)
      [] fr.k = "Call" -> _eval_call_k(mc, fr, v)
      [] fr.k = "execute_module" -> execute_module_k(mc, fr, v)
      [] fr.k = "Attribute" -> _eval_attribute_k(mc, fr, v)
      [] fr.k = "List" -> _eval_list_k(mc, fr, v)
      [] fr.k = "_starred_unwrap" -> _starred_unwrap_k(mc, fr, v)
      [] fr.k = "ListComp" -> _eval_listcomp_k(mc, fr, v)
      [] fr.k = "JoinedStr" -> _eval_joinedstr_k(mc, fr, v)
      [] fr.k = "Assign" -> _eval_assign_k(mc, fr, v)
      [] fr.k = "Return" -> _exec_return_k(mc, fr, v)
      [] fr.k = "If" -> _exec_if_k(mc, fr, v)
      [] fr.k = "For" -> _exec_for_k(mc, fr, v)
      [] fr.k = "While" -> _exec_while_k(mc, fr, v)
      [] fr.k = "Try" -> _exec_try_k(mc, fr, v)
      [] fr.k = "Match" -> _exec_match_k(mc, fr, v)

\* an exception passes the suspended handler on top of the stack
unwind(mc, fr, e) ==
    CASE fr.k = "top" -> Fail(mc, e)
      [] fr.k = "Call" -> _eval_call_x(mc, fr, e)
      [] fr.k = "execute_module" -> execute_module_x(mc, fr, e)
      [] fr.k = "ListComp" -> comp_exit(mc)
      [] fr.k = "Try" -> _exec_try_x(mc, fr, e)
      [] OTHER -> Pop(mc)

\* the iterator a frame is taking items from
iterator(fr) ==
    CASE fr.k \in {"For", "_starred_unwrap"} -> fr.it
      [] fr.k = "ListComp" -> fr.its[fr.gi]
      [] OTHER -> NoIter

\* a loop asks its iterator for the next item
next(mc, fr) ==
    CASE iterator(fr).gen # 0 -> gen_next(mc, iterator(fr).gen)
      [] fr.k = "For" -> _exec_for_next(mc, fr)
      [] fr.k = "_starred_unwrap" -> _starred_unwrap_next(mc, fr)
      [] fr.k = "ListComp" -> do_generator_next(mc, fr)
      [] fr.k = "Compare" -> contains_next(mc, fr)

(***************************************************************************)
(* Reference counts.  A generator object lives as long as something refers *)
(* to it: a name, the value in hand, the iterator of a loop.  When the     *)
(* last reference goes, a generator waiting at its yield is closed at      *)
(* once: GeneratorExit is raised at the yield and the finally clause of    *)
(* _do_comprehension runs.  In these scripts generator objects are held by *)
(* names and by the loops that iterate them.                               *)
(***************************************************************************)
RECURSIVE held(_)
held(v) ==
    CASE v.k = "generator" -> {v.id}
      [] v.k \in {"list", "tuple"} -> UNION {held(v.l[j]) : j \in 1..Len(v.l)}
      [] OTHER -> {}

iterated(fr) ==
    CASE fr.k \in {"For", "_starred_unwrap"} -> {fr.it.gen}
      [] fr.k = "ListComp" -> {fr.its[j].gen : j \in 1..Len(fr.its)}
      [] OTHER -> {}

\* the generator objects that are referred to
Refs(mc) ==
    (UNION {UNION {held(mc.envs[n][id]) : id \in DOMAIN mc.envs[n]} : n \in 1..Len(mc.envs)}
       \cup held(mc.ctl.v)
       \cup UNION {iterated(mc.stk[j]) : j \in 1..Len(mc.stk)}
       \cup UNION {iterated(mc.evallers[k].fr) : k \in 1..Len(mc.evallers)}) \ {0}

\* generator.close(): the finally clause of a started generator puts back the Name handler
\* that was installed when the generator started
close(mc, g) ==
    [mc EXCEPT !.self.nodes_Name = IF mc.evallers[g].st = "suspended"
                                   THEN mc.evallers[g].previous_name_evaller ELSE @,
               !.evallers[g].st = "done", !.evallers[g].fr = NoFrame]

RECURSIVE dealloc(_)
dealloc(mc) ==
    LET dropped == {g \in 1..Len(mc.evallers) :
                       mc.evallers[g].st \in {"new", "suspended"} /\ g \notin Refs(mc)} IN
    IF dropped = {} THEN mc
    ELSE dealloc(close(mc, CHOOSE g \in dropped : \A j \in dropped : g <= j))

\* the Name handlers that can still be asked: the installed one, those of the comprehensions
\* that are running or waiting, and the ones each of them would put back or delegates to
RECURSIVE chain(_, _)
chain(mc, j) == IF j = 0 THEN {} ELSE {j} \cup chain(mc, mc.evallers[j].previous_name_evaller)

needed(mc) ==
    LET roots == {mc.self.nodes_Name}
                   \cup {mc.stk[j].me : j \in {i \in 1..Len(mc.stk) : mc.stk[i].k = "ListComp"}}
                   \cup {g \in Refs(mc) : mc.evallers[g].st = "suspended"} IN
    UNION {chain(mc, j) : j \in roots}

\* what nothing can reach any more is forgotten
forget(mc) ==
    LET all == [k \in 1..Len(mc.evallers) |->
                  IF k \in needed(mc) THEN mc.evallers[k]
                  ELSE IF k \in Refs(mc)
                  THEN IF mc.evallers[k].st = "new" THEN mc.evallers[k] ELSE [NoEvaller EXCEPT !.st = "done"]
                  ELSE NoEvaller]
        used == {k \in 1..Len(all) : all[k] # NoEvaller}
        last == IF used = {} THEN 0 ELSE CHOOSE k \in used : \A j \in used : j <= k IN
    [mc EXCEPT !.evallers = SubSeq(all, 1, last)]

\* a step of the evaluator is over when the references it dropped have had their effect
refcount(mc) ==
    \E m1 \in {mc} : \E m2 \in {dealloc(m1)} : \E m3 \in {forget(m2)} : Becomes(m3)

Fresh(mc) == [mc EXCEPT !.ev = NoEv]

\* _preflight, and the history of the run starts over
_preflight(mc) ==
    [mc EXCEPT !.self._num_stmts = 0, !.self._loops = 0, !.runs = @ + 1,
               !.result = [k |-> "none", v |-> NoneV, e |-> NoExc],
               !.hist = [handled |-> 0, iters |-> 0, kinds |-> {}],
               !.ev = [t |-> "start", node |-> Absent, e |-> NoExc, flag |-> FALSE, n |-> 0]]

(***************************************************************************)
(* The scripts the host runs, as the parser hands them to the evaluator.   *)
(***************************************************************************)
Scripts == <<
    \* try:
    \*     while 1:
    \*         pass
    \* finally:
    \*     pass
    <<Try(<<While(Num(1), <<Pass>>, <<>>)>>, <<>>, <<>>, <<Pass>>)>>,
    \* try:
    \*     while 1:
    \*         pass
    \* finally:
    \*     return 1
    <<Try(<<While(Num(1), <<Pass>>, <<>>)>>, <<>>, <<>>, <<Return(Num(1))>>)>>,
    \* try:
    \*     while 1:
    \*         pass
    \* except:
    \*     x = 5
    <<Try(<<While(Num(1), <<Pass>>, <<>>)>>, <<ExceptHandler(Absent, "", <<Assign(Name("x"), Num(5))>>)>>, <<>>, <<>>)>>,
    \* try:
    \*     while 1:
    \*         pass
    \* except:
    \*     x = 5
    \* finally:
    \*     pass
    <<Try(<<While(Num(1), <<Pass>>, <<>>)>>, <<ExceptHandler(Absent, "", <<Assign(Name("x"), Num(5))>>)>>, <<>>, <<Pass>>)>>,
    \* try:
    \*     while 1:
    \*         pass
    \* except:
    \*     x = 5
    \* finally:
    \*     return 1
    <<Try(<<While(Num(1), <<Pass>>, <<>>)>>, <<ExceptHandler(Absent, "", <<Assign(Name("x"), Num(5))>>)>>, <<>>, <<Return(Num(1))>>)>>,
    \* try:
    \*     while 1:
    \*         pass
    \* except "NotDefined":
    \*     pass
    <<Try(<<While(Num(1), <<Pass>>, <<>>)>>, <<ExceptHandler(Str(<<"N", "o", "t", "D", "e", "f", "i", "n", "e", "d">>), "", <<Pass>>)>>, <<>>, <<>>)>>,
    \* try:
    \*     while 1:
    \*         pass
    \* except "NotDefined":
    \*     pass
    \* finally:
    \*     pass
    <<Try(<<While(Num(1), <<Pass>>, <<>>)>>, <<ExceptHandler(Str(<<"N", "o", "t", "D", "e", "f", "i", "n", "e", "d">>), "", <<Pass>>)>>, <<>>, <<Pass>>)>>,
    \* try:
    \*     while 1:
    \*         pass
    \* except "NotDefined":
    \*     pass
    \* finally:
    \*     return 1
    <<Try(<<While(Num(1), <<Pass>>, <<>>)>>, <<ExceptHandler(Str(<<"N", "o", "t", "D", "e", "f", "i", "n", "e", "d">>), "", <<Pass>>)>>, <<>>, <<Return(Num(1))>>)>>,
    \* def f():
    \*     f()
    \* try:
    \*     f()
    \* finally:
    \*     pass
    <<FunctionDef("f", <<>>, <<>>, <<Expr(Call(Name("f"), <<>>))>>), Try(<<Expr(Call(Name("f"), <<>>))>>, <<>>, <<>>, <<Pass>>)>>,
    \* def f():
    \*     f()
    \* try:
    \*     f()
    \* finally:
    \*     return 1
    <<FunctionDef("f", <<>>, <<>>, <<Expr(Call(Name("f"), <<>>))>>), Try(<<Expr(Call(Name("f"), <<>>))>>, <<>>, <<>>, <<Return(Num(1))>>)>>,
    \* def f():
    \*     f()
    \* try:
    \*     f()
    \* except:
    \*     x = 5
    <<FunctionDef("f", <<>>, <<>>, <<Expr(Call(Name("f"), <<>>))>>), Try(<<Expr(Call(Name("f"), <<>>))>>, <<ExceptHandler(Absent, "", <<Assign(Name("x"), Num(5))>>)>>, <<>>, <<>>)>>,
    \* def f():
    \*     f()
    \* try:
    \*     f()
    \* except:
    \*     x = 5
    \* finally:
    \*     pass
    <<FunctionDef("f", <<>>, <<>>, <<Expr(Call(Name("f"), <<>>))>>), Try(<<Expr(Call(Name("f"), <<>>))>>, <<ExceptHandler(Absent, "", <<Assign(Name("x"), Num(5))>>)>>, <<>>, <<Pass>>)>>,
    \* def f():
    \*     f()
    \* try:
    \*     f()
    \* except:
    \*     x = 5
    \* finally:
    \*     return 1
    <<FunctionDef("f", <<>>, <<>>, <<Expr(Call(Name("f"), <<>>))>>), Try(<<Expr(Call(Name("f"), <<>>))>>, <<ExceptHandler(Absent, "", <<Assign(Name("x"), Num(5))>>)>>, <<>>, <<Return(Num(1))>>)>>,
    \* try:
    \*     x = 9 ** 9
    \* finally:
    \*     pass
    <<Try(<<Assign(Name("x"), BinOp(Num(9), "Pow", Num(9)))>>, <<>>, <<>>, <<Pass>>)>>,
    \* try:
    \*     x = 9 ** 9
    \* finally:
    \*     return 1
    <<Try(<<Assign(Name("x"), BinOp(Num(9), "Pow", Num(9)))>>, <<>>, <<>>, <<Return(Num(1))>>)>>,
    \* try:
    \*     x = 9 ** 9
    \* except:
    \*     x = 5
    <<Try(<<Assign(Name("x"), BinOp(Num(9), "Pow", Num(9)))>>, <<ExceptHandler(Absent, "", <<Assign(Name("x"), Num(5))>>)>>, <<>>, <<>>)>>,
    \* try:
    \*     x = 9 ** 9
    \* except:
    \*     x = 5
    \* finally:
    \*     pass
    <<Try(<<Assign(Name("x"), BinOp(Num(9), "Pow", Num(9)))>>, <<ExceptHandler(Absent, "", <<Assign(Name("x"), Num(5))>>)>>, <<>>, <<Pass>>)>>,
    \* try:
    \*     x = 9 ** 9
    \* except:
    \*     x = 5
    \* finally:
    \*     return 1
    <<Try(<<Assign(Name("x"), BinOp(Num(9), "Pow", Num(9)))>>, <<ExceptHandler(Absent, "", <<Assign(Name("x"), Num(5))>>)>>, <<>>, <<Return(Num(1))>>)>>,
    \* try:
    \*     x = 9 ** 9
    \* except "NotDefined":
    \*     pass
    <<Try(<<Assign(Name("x"), BinOp(Num(9), "Pow", Num(9)))>>, <<ExceptHandler(Str(<<"N", "o", "t", "D", "e", "f", "i", "n", "e", "d">>), "", <<Pass>>)>>, <<>>, <<>>)>>,
    \* try:
    \*     x = 9 ** 9
    \* except "NotDefined":
    \*     pass
    \* finally:
    \*     pass
    <<Try(<<Assign(Name("x"), BinOp(Num(9), "Pow", Num(9)))>>, <<ExceptHandler(Str(<<"N", "o", "t", "D", "e", "f", "i", "n", "e", "d">>), "", <<Pass>>)>>, <<>>, <<Pass>>)>>,
    \* try:
    \*     x = 9 ** 9
    \* except "NotDefined":
    \*     pass
    \* finally:
    \*     return 1
    <<Try(<<Assign(Name("x"), BinOp(Num(9), "Pow", Num(9)))>>, <<ExceptHandler(Str(<<"N", "o", "t", "D", "e", "f", "i", "n", "e", "d">>), "", <<Pass>>)>>, <<>>, <<Return(Num(1))>>)>>,
    \* try:
    \*     x = "aaaaaaaaaaaa"
    \* finally:
    \*     pass
    <<Try(<<Assign(Name("x"), Str(<<"a", "a", "a", "a", "a", "a", "a", "a", "a", "a", "a", "a">>))>>, <<>>, <<>>, <<Pass>>)>>,
    \* try:
    \*     x = "aaaaaaaaaaaa"
    \* finally:
    \*     return 1
    <<Try(<<Assign(Name("x"), Str(<<"a", "a", "a", "a", "a", "a", "a", "a", "a", "a", "a", "a">>))>>, <<>>, <<>>, <<Return(Num(1))>>)>>,
    \* try:
    \*     x = "aaaaaaaaaaaa"
    \* except:
    \*     x = 5
    <<Try(<<Assign(Name("x"), Str(<<"a", "a", "a", "a", "a", "a", "a", "a", "a", "a", "a", "a">>))>>, <<ExceptHandler(Absent, "", <<Assign(Name("x"), Num(5))>>)>>, <<>>, <<>>)>>,
    \* try:
    \*     x = "aaaaaaaaaaaa"
    \* except:
    \*     x = 5
    \* finally:
    \*     pass
    <<Try(<<Assign(Name("x"), Str(<<"a", "a", "a", "a", "a", "a", "a", "a", "a", "a", "a", "a">>))>>, <<ExceptHandler(Absent, "", <<Assign(Name("x"), Num(5))>>)>>, <<>>, <<Pass>>)>>,
    \* try:
    \*     x = "aaaaaaaaaaaa"
    \* except:
    \*     x = 5
    \* finally:
    \*     return 1
    <<Try(<<Assign(Name("x"), Str(<<"a", "a", "a", "a", "a", "a", "a", "a", "a", "a", "a", "a">>))>>, <<ExceptHandler(Absent, "", <<Assign(Name("x"), Num(5))>>)>>, <<>>, <<Return(Num(1))>>)>>,
    \* try:
    \*     pass
    \*     pass
    \*     pass
    \*     pass
    \*     pass
    \*     pass
    \*     pass
    \*     pass
    \*     pass
    \*     pass
    \*     pass
    \*     pass
    \*     pass
    \*     pass
    \*     pass
    \*     pass
    \*     pass
    \*     pass
    \*     pass
    \*     pass
    \*     pass
    \*     pass
    \*     pass
    \*     pass
    \*     pass
    \*     pass
    \*     pass
    \* finally:
    \*     pass
    <<Try(<<Pass, Pass, Pass, Pass, Pass, Pass, Pass, Pass, Pass, Pass, Pass, Pass, Pass, Pass, Pass, Pass, Pass, Pass, Pass, Pass, Pass, Pass, Pass, Pass, Pass, Pass, Pass>>, <<>>, <<>>, <<Pass>>)>>,
    \* try:
    \*     pass
    \*     pass
    \*     pass
    \*     pass
    \*     pass
    \*     pass
    \*     pass
    \*     pass
    \*     pass
    \*     pass
    \*     pass
    \*     pass
    \*     pass
    \*     pass
    \*     pass
    \*     pass
    \*     pass
    \*     pass
    \*     pass
    \*     pass
    \*     pass
    \*     pass
    \*     pass
    \*     pass
    \*     pass
    \*     pass
    \*     pass
    \* finally:
    \*     return 1
    <<Try(<<Pass, Pass, Pass, Pass, Pass, Pass, Pass, Pass, Pass, Pass, Pass, Pass, Pass, Pass, Pass, Pass, Pass, Pass, Pass, Pass, Pass, Pass, Pass, Pass, Pass, Pass, Pass>>, <<>>, <<>>, <<Return(Num(1))>>)>>,
    \* try:
    \*     pass
    \*     pass
    \*     pass
    \*     pass
    \*     pass
    \*     pass
    \*     pass
    \*     pass
    \*     pass
    \*     pass
    \*     pass
    \*     pass
    \*     pass
    \*     pass
    \*     pass
    \*     pass
    \*     pass
    \*     pass
    \*     pass
    \*     pass
    \*     pass
    \*     pass
    \*     pass
    \*     pass
    \*     pass
    \*     pass
    \*     pass
    \* except:
    \*     x = 5
    <<Try(<<Pass, Pass, Pass, Pass, Pass, Pass, Pass, Pass, Pass, Pass, Pass, Pass, Pass, Pass, Pass, Pass, Pass, Pass, Pass, Pass, Pass, Pass, Pass, Pass, Pass, Pass, Pass>>, <<ExceptHandler(Absent, "", <<Assign(Name("x"), Num(5))>>)>>, <<>>, <<>>)>>,
    \* try:
    \*     pass
    \*     pass
    \*     pass
    \*     pass
    \*     pass
    \*     pass
    \*     pass
    \*     pass
    \*     pass
    \*     pass
    \*     pass
    \*     pass
    \*     pass
    \*     pass
    \*     pass
    \*     pass
    \*     pass
    \*     pass
    \*     pass
    \*     pass
    \*     pass
    \*     pass
    \*     pass
    \*     pass
    \*     pass
    \*     pass
    \*     pass
    \* except:
    \*     x = 5
    \* finally:
    \*     pass
    <<Try(<<Pass, Pass, Pass, Pass, Pass, Pass, Pass, Pass, Pass, Pass, Pass, Pass, Pass, Pass, Pass, Pass, Pass, Pass, Pass, Pass, Pass, Pass, Pass, Pass, Pass, Pass, Pass>>, <<ExceptHandler(Absent, "", <<Assign(Name("x"), Num(5))>>)>>, <<>>, <<Pass>>)>>,
    \* try:
    \*     pass
    \*     pass
    \*     pass
    \*     pass
    \*     pass
    \*     pass
    \*     pass
    \*     pass
    \*     pass
    \*     pass
    \*     pass
    \*     pass
    \*     pass
    \*     pass
    \*     pass
    \*     pass
    \*     pass
    \*     pass
    \*     pass
    \*     pass
    \*     pass
    \*     pass
    \*     pass
    \*     pass
    \*     pass
    \*     pass
    \*     pass
    \* except:
    \*     x = 5
    \* finally:
    \*     return 1
    <<Try(<<Pass, Pass, Pass, Pass, Pass, Pass, Pass, Pass, Pass, Pass, Pass, Pass, Pass, Pass, Pass, Pass, Pass, Pass, Pass, Pass, Pass, Pass, Pass, Pass, Pass, Pass, Pass>>, <<ExceptHandler(Absent, "", <<Assign(Name("x"), Num(5))>>)>>, <<>>, <<Return(Num(1))>>)>>,
    \* try:
    \*     x = z
    \* finally:
    \*     pass
    <<Try(<<Assign(Name("x"), Name("z"))>>, <<>>, <<>>, <<Pass>>)>>,
    \* try:
    \*     x = z
    \* finally:
    \*     return 1
    <<Try(<<Assign(Name("x"), Name("z"))>>, <<>>, <<>>, <<Return(Num(1))>>)>>,
    \* try:
    \*     x = z
    \* except:
    \*     x = 5
    <<Try(<<Assign(Name("x"), Name("z"))>>, <<ExceptHandler(Absent, "", <<Assign(Name("x"), Num(5))>>)>>, <<>>, <<>>)>>,
    \* try:
    \*     x = z
    \* except:
    \*     x = 5
    \* finally:
    \*     pass
    <<Try(<<Assign(Name("x"), Name("z"))>>, <<ExceptHandler(Absent, "", <<Assign(Name("x"), Num(5))>>)>>, <<>>, <<Pass>>)>>,
    \* try:
    \*     x = z
    \* except:
    \*     x = 5
    \* finally:
    \*     return 1
    <<Try(<<Assign(Name("x"), Name("z"))>>, <<ExceptHandler(Absent, "", <<Assign(Name("x"), Num(5))>>)>>, <<>>, <<Return(Num(1))>>)>>,
    \* try:
    \*     x = z
    \* except "NotDefined":
    \*     pass
    <<Try(<<Assign(Name("x"), Name("z"))>>, <<ExceptHandler(Str(<<"N", "o", "t", "D", "e", "f", "i", "n", "e", "d">>), "", <<Pass>>)>>, <<>>, <<>>)>>,
    \* try:
    \*     x = z
    \* except "NotDefined":
    \*     pass
    \* finally:
    \*     pass
    <<Try(<<Assign(Name("x"), Name("z"))>>, <<ExceptHandler(Str(<<"N", "o", "t", "D", "e", "f", "i", "n", "e", "d">>), "", <<Pass>>)>>, <<>>, <<Pass>>)>>,
    \* try:
    \*     x = z
    \* except "NotDefined":
    \*     pass
    \* finally:
    \*     return 1
    <<Try(<<Assign(Name("x"), Name("z"))>>, <<ExceptHandler(Str(<<"N", "o", "t", "D", "e", "f", "i", "n", "e", "d">>), "", <<Pass>>)>>, <<>>, <<Return(Num(1))>>)>>,
    \* try:
    \*     x = 1
    \* finally:
    \*     pass
    <<Try(<<Assign(Name("x"), Num(1))>>, <<>>, <<>>, <<Pass>>)>>,
    \* try:
    \*     x = 1
    \* finally:
    \*     return 1
    <<Try(<<Assign(Name("x"), Num(1))>>, <<>>, <<>>, <<Return(Num(1))>>)>>,
    \* try:
    \*     x = 1
    \* except:
    \*     x = 5
    <<Try(<<Assign(Name("x"), Num(1))>>, <<ExceptHandler(Absent, "", <<Assign(Name("x"), Num(5))>>)>>, <<>>, <<>>)>>,
    \* try:
    \*     x = 1
    \* except:
    \*     x = 5
    \* finally:
    \*     pass
    <<Try(<<Assign(Name("x"), Num(1))>>, <<ExceptHandler(Absent, "", <<Assign(Name("x"), Num(5))>>)>>, <<>>, <<Pass>>)>>,
    \* try:
    \*     x = 1
    \* except:
    \*     x = 5
    \* finally:
    \*     return 1
    <<Try(<<Assign(Name("x"), Num(1))>>, <<ExceptHandler(Absent, "", <<Assign(Name("x"), Num(5))>>)>>, <<>>, <<Return(Num(1))>>)>>,
    \* try:
    \*     x = 1
    \* except "NotDefined":
    \*     pass
    <<Try(<<Assign(Name("x"), Num(1))>>, <<ExceptHandler(Str(<<"N", "o", "t", "D", "e", "f", "i", "n", "e", "d">>), "", <<Pass>>)>>, <<>>, <<>>)>>,
    \* try:
    \*     x = 1
    \* except "NotDefined":
    \*     pass
    \* finally:
    \*     pass
    <<Try(<<Assign(Name("x"), Num(1))>>, <<ExceptHandler(Str(<<"N", "o", "t", "D", "e", "f", "i", "n", "e", "d">>), "", <<Pass>>)>>, <<>>, <<Pass>>)>>,
    \* try:
    \*     x = 1
    \* except "NotDefined":
    \*     pass
    \* finally:
    \*     return 1
    <<Try(<<Assign(Name("x"), Num(1))>>, <<ExceptHandler(Str(<<"N", "o", "t", "D", "e", "f", "i", "n", "e", "d">>), "", <<Pass>>)>>, <<>>, <<Return(Num(1))>>)>>,
    \* try:
    \*     return 2
    \* finally:
    \*     pass
    <<Try(<<Return(Num(2))>>, <<>>, <<>>, <<Pass>>)>>,
    \* try:
    \*     return 2
    \* finally:
    \*     return 1
    <<Try(<<Return(Num(2))>>, <<>>, <<>>, <<Return(Num(1))>>)>>,
    \* try:
    \*     return 2
    \* except:
    \*     x = 5
    <<Try(<<Return(Num(2))>>, <<ExceptHandler(Absent, "", <<Assign(Name("x"), Num(5))>>)>>, <<>>, <<>>)>>,
    \* try:
    \*     return 2
    \* except:
    \*     x = 5
    \* finally:
    \*     pass
    <<Try(<<Return(Num(2))>>, <<ExceptHandler(Absent, "", <<Assign(Name("x"), Num(5))>>)>>, <<>>, <<Pass>>)>>,
    \* try:
    \*     return 2
    \* except:
    \*     x = 5
    \* finally:
    \*     return 1
    <<Try(<<Return(Num(2))>>, <<ExceptHandler(Absent, "", <<Assign(Name("x"), Num(5))>>)>>, <<>>, <<Return(Num(1))>>)>>,
    \* try:
    \*     x = 1
    \* except:
    \*     pass
    \* else:
    \*     return 3
    \* finally:
    \*     pass
    <<Try(<<Assign(Name("x"), Num(1))>>, <<ExceptHandler(Absent, "", <<Pass>>)>>, <<Return(Num(3))>>, <<Pass>>)>>,
    \* try:
    \*     x = 1
    \* except:
    \*     pass
    \* else:
    \*     x = z
    <<Try(<<Assign(Name("x"), Num(1))>>, <<ExceptHandler(Absent, "", <<Pass>>)>>, <<Assign(Name("x"), Name("z"))>>, <<>>)>>,
    \* for x in [1, 2]:
    \*     try:
    \*         y = 9 ** 9
    \*     finally:
    \*         continue
    <<For(Name("x"), List(<<Num(1), Num(2)>>), <<Try(<<Assign(Name("y"), BinOp(Num(9), "Pow", Num(9)))>>, <<>>, <<>>, <<Continue>>)>>, <<>>)>>,
    \* while 1:
    \*     try:
    \*         y = [*it]
    \*     finally:
    \*         break
    <<While(Num(1), <<Try(<<Assign(Name("y"), List(<<Starred(Name("it"))>>))>>, <<>>, <<>>, <<Break>>)>>, <<>>)>>,
    \* try:
    \*     x = z
    \* except "TypeError":
    \*     pass
    \* except "NotDefined":
    \*     return 4
    <<Try(<<Assign(Name("x"), Name("z"))>>, <<ExceptHandler(Str(<<"T", "y", "p", "e", "E", "r", "r", "o", "r">>), "", <<Pass>>), ExceptHandler(Str(<<"N", "o", "t", "D", "e", "f", "i", "n", "e", "d">>), "", <<Return(Num(4))>>)>>, <<>>, <<>>)>>,
    \* try:
    \*     x = z
    \* except "aaaaaaaaaaaa":
    \*     pass
    <<Try(<<Assign(Name("x"), Name("z"))>>, <<ExceptHandler(Str(<<"a", "a", "a", "a", "a", "a", "a", "a", "a", "a", "a", "a">>), "", <<Pass>>)>>, <<>>, <<>>)>>,
    \* try:
    \*     x = z
    \* except "NotDefined" as y:
    \*     pass
    <<Try(<<Assign(Name("x"), Name("z"))>>, <<ExceptHandler(Str(<<"N", "o", "t", "D", "e", "f", "i", "n", "e", "d">>), "y", <<Pass>>)>>, <<>>, <<>>)>>,
    \* try:
    \*     x = z
    \* except 1:
    \*     pass
    <<Try(<<Assign(Name("x"), Name("z"))>>, <<ExceptHandler(Num(1), "", <<Pass>>)>>, <<>>, <<>>)>>,
    \* try:
    \*     x = 1 - "a"
    \* except "TypeError":
    \*     return 6
    <<Try(<<Assign(Name("x"), BinOp(Num(1), "Sub", Str(<<"a">>)))>>, <<ExceptHandler(Str(<<"T", "y", "p", "e", "E", "r", "r", "o", "r">>), "", <<Return(Num(6))>>)>>, <<>>, <<>>)>>,
    \* for x in [1, 2]:
    \*     pass
    <<For(Name("x"), List(<<Num(1), Num(2)>>), <<Pass>>, <<>>)>>,
    \* x = 2
    \* while x:
    \*     x = x - 1
    <<Assign(Name("x"), Num(2)), While(Name("x"), <<Assign(Name("x"), BinOp(Name("x"), "Sub", Num(1)))>>, <<>>)>>,
    \* y = [x for x in [1, 2]]
    <<Assign(Name("y"), ListComp(Name("x"), <<comprehension(Name("x"), List(<<Num(1), Num(2)>>), <<>>)>>))>>,
    \* y = [*[1, 2]]
    <<Assign(Name("y"), List(<<Starred(List(<<Num(1), Num(2)>>))>>))>>,
    \* for x in [1, 2]:
    \*     pass
    \* for x in [1, 2]:
    \*     pass
    <<For(Name("x"), List(<<Num(1), Num(2)>>), <<Pass>>, <<>>), For(Name("x"), List(<<Num(1), Num(2)>>), <<Pass>>, <<>>)>>,
    \* for x in [1, 2]:
    \*     pass
    \* x = 2
    \* while x:
    \*     x = x - 1
    <<For(Name("x"), List(<<Num(1), Num(2)>>), <<Pass>>, <<>>), Assign(Name("x"), Num(2)), While(Name("x"), <<Assign(Name("x"), BinOp(Name("x"), "Sub", Num(1)))>>, <<>>)>>,
    \* for x in [1, 2]:
    \*     pass
    \* y = [x for x in [1, 2]]
    <<For(Name("x"), List(<<Num(1), Num(2)>>), <<Pass>>, <<>>), Assign(Name("y"), ListComp(Name("x"), <<comprehension(Name("x"), List(<<Num(1), Num(2)>>), <<>>)>>))>>,
    \* for x in [1, 2]:
    \*     pass
    \* y = [*[1, 2]]
    <<For(Name("x"), List(<<Num(1), Num(2)>>), <<Pass>>, <<>>), Assign(Name("y"), List(<<Starred(List(<<Num(1), Num(2)>>))>>))>>,
    \* for x in [1, 2]:
    \*     pass
    \* for x in it:
    \*     pass
    <<For(Name("x"), List(<<Num(1), Num(2)>>), <<Pass>>, <<>>), For(Name("x"), Name("it"), <<Pass>>, <<>>)>>,
    \* for x in [1, 2]:
    \*     pass
    \* y = [x for x in it]
    <<For(Name("x"), List(<<Num(1), Num(2)>>), <<Pass>>, <<>>), Assign(Name("y"), ListComp(Name("x"), <<comprehension(Name("x"), Name("it"), <<>>)>>))>>,
    \* for x in [1, 2]:
    \*     pass
    \* y = [*it]
    <<For(Name("x"), List(<<Num(1), Num(2)>>), <<Pass>>, <<>>), Assign(Name("y"), List(<<Starred(Name("it"))>>))>>,
    \* for x in [1, 2]:
    \*     pass
    \* while 1:
    \*     pass
    <<For(Name("x"), List(<<Num(1), Num(2)>>), <<Pass>>, <<>>), While(Num(1), <<Pass>>, <<>>)>>,
    \* x = 2
    \* while x:
    \*     x = x - 1
    \* for x in [1, 2]:
    \*     pass
    <<Assign(Name("x"), Num(2)), While(Name("x"), <<Assign(Name("x"), BinOp(Name("x"), "Sub", Num(1)))>>, <<>>), For(Name("x"), List(<<Num(1), Num(2)>>), <<Pass>>, <<>>)>>,
    \* x = 2
    \* while x:
    \*     x = x - 1
    \* x = 2
    \* while x:
    \*     x = x - 1
    <<Assign(Name("x"), Num(2)), While(Name("x"), <<Assign(Name("x"), BinOp(Name("x"), "Sub", Num(1)))>>, <<>>), Assign(Name("x"), Num(2)), While(Name("x"), <<Assign(Name("x"), BinOp(Name("x"), "Sub", Num(1)))>>, <<>>)>>,
    \* x = 2
    \* while x:
    \*     x = x - 1
    \* y = [x for x in [1, 2]]
    <<Assign(Name("x"), Num(2)), While(Name("x"), <<Assign(Name("x"), BinOp(Name("x"), "Sub", Num(1)))>>, <<>>), Assign(Name("y"), ListComp(Name("x"), <<comprehension(Name("x"), List(<<Num(1), Num(2)>>), <<>>)>>))>>,
    \* x = 2
    \* while x:
    \*     x = x - 1
    \* y = [*[1, 2]]
    <<Assign(Name("x"), Num(2)), While(Name("x"), <<Assign(Name("x"), BinOp(Name("x"), "Sub", Num(1)))>>, <<>>), Assign(Name("y"), List(<<Starred(List(<<Num(1), Num(2)>>))>>))>>,
    \* x = 2
    \* while x:
    \*     x = x - 1
    \* for x in it:
    \*     pass
    <<Assign(Name("x"), Num(2)), While(Name("x"), <<Assign(Name("x"), BinOp(Name("x"), "Sub", Num(1)))>>, <<>>), For(Name("x"), Name("it"), <<Pass>>, <<>>)>>,
    \* x = 2
    \* while x:
    \*     x = x - 1
    \* y = [x for x in it]
    <<Assign(Name("x"), Num(2)), While(Name("x"), <<Assign(Name("x"), BinOp(Name("x"), "Sub", Num(1)))>>, <<>>), Assign(Name("y"), ListComp(Name("x"), <<comprehension(Name("x"), Name("it"), <<>>)>>))>>,
    \* x = 2
    \* while x:
    \*     x = x - 1
    \* y = [*it]
    <<Assign(Name("x"), Num(2)), While(Name("x"), <<Assign(Name("x"), BinOp(Name("x"), "Sub", Num(1)))>>, <<>>), Assign(Name("y"), List(<<Starred(Name("it"))>>))>>,
    \* x = 2
    \* while x:
    \*     x = x - 1
    \* while 1:
    \*     pass
    <<Assign(Name("x"), Num(2)), While(Name("x"), <<Assign(Name("x"), BinOp(Name("x"), "Sub", Num(1)))>>, <<>>), While(Num(1), <<Pass>>, <<>>)>>,
    \* y = [x for x in [1, 2]]
    \* for x in [1, 2]:
    \*     pass
    <<Assign(Name("y"), ListComp(Name("x"), <<comprehension(Name("x"), List(<<Num(1), Num(2)>>), <<>>)>>)), For(Name("x"), List(<<Num(1), Num(2)>>), <<Pass>>, <<>>)>>,
    \* y = [x for x in [1, 2]]
    \* x = 2
    \* while x:
    \*     x = x - 1
    <<Assign(Name("y"), ListComp(Name("x"), <<comprehension(Name("x"), List(<<Num(1), Num(2)>>), <<>>)>>)), Assign(Name("x"), Num(2)), While(Name("x"), <<Assign(Name("x"), BinOp(Name("x"), "Sub", Num(1)))>>, <<>>)>>,
    \* y = [x for x in [1, 2]]
    \* y = [x for x in [1, 2]]
    <<Assign(Name("y"), ListComp(Name("x"), <<comprehension(Name("x"), List(<<Num(1), Num(2)>>), <<>>)>>)), Assign(Name("y"), ListComp(Name("x"), <<comprehension(Name("x"), List(<<Num(1), Num(2)>>), <<>>)>>))>>,
    \* y = [x for x in [1, 2]]
    \* y = [*[1, 2]]
    <<Assign(Name("y"), ListComp(Name("x"), <<comprehension(Name("x"), List(<<Num(1), Num(2)>>), <<>>)>>)), Assign(Name("y"), List(<<Starred(List(<<Num(1), Num(2)>>))>>))>>,
    \* y = [x for x in [1, 2]]
    \* for x in it:
    \*     pass
    <<Assign(Name("y"), ListComp(Name("x"), <<comprehension(Name("x"), List(<<Num(1), Num(2)>>), <<>>)>>)), For(Name("x"), Name("it"), <<Pass>>, <<>>)>>,
    \* y = [x for x in [1, 2]]
    \* y = [x for x in it]
    <<Assign(Name("y"), ListComp(Name("x"), <<comprehension(Name("x"), List(<<Num(1), Num(2)>>), <<>>)>>)), Assign(Name("y"), ListComp(Name("x"), <<comprehension(Name("x"), Name("it"), <<>>)>>))>>,
    \* y = [x for x in [1, 2]]
    \* y = [*it]
    <<Assign(Name("y"), ListComp(Name("x"), <<comprehension(Name("x"), List(<<Num(1), Num(2)>>), <<>>)>>)), Assign(Name("y"), List(<<Starred(Name("it"))>>))>>,
    \* y = [x for x in [1, 2]]
    \* while 1:
    \*     pass
    <<Assign(Name("y"), ListComp(Name("x"), <<comprehension(Name("x"), List(<<Num(1), Num(2)>>), <<>>)>>)), While(Num(1), <<Pass>>, <<>>)>>,
    \* y = [*[1, 2]]
    \* for x in [1, 2]:
    \*     pass
    <<Assign(Name("y"), List(<<Starred(List(<<Num(1), Num(2)>>))>>)), For(Name("x"), List(<<Num(1), Num(2)>>), <<Pass>>, <<>>)>>,
    \* y = [*[1, 2]]
    \* x = 2
    \* while x:
    \*     x = x - 1
    <<Assign(Name("y"), List(<<Starred(List(<<Num(1), Num(2)>>))>>)), Assign(Name("x"), Num(2)), While(Name("x"), <<Assign(Name("x"), BinOp(Name("x"), "Sub", Num(1)))>>, <<>>)>>,
    \* y = [*[1, 2]]
    \* y = [x for x in [1, 2]]
    <<Assign(Name("y"), List(<<Starred(List(<<Num(1), Num(2)>>))>>)), Assign(Name("y"), ListComp(Name("x"), <<comprehension(Name("x"), List(<<Num(1), Num(2)>>), <<>>)>>))>>,
    \* y = [*[1, 2]]
    \* y = [*[1, 2]]
    <<Assign(Name("y"), List(<<Starred(List(<<Num(1), Num(2)>>))>>)), Assign(Name("y"), List(<<Starred(List(<<Num(1), Num(2)>>))>>))>>,
    \* y = [*[1, 2]]
    \* for x in it:
    \*     pass
    <<Assign(Name("y"), List(<<Starred(List(<<Num(1), Num(2)>>))>>)), For(Name("x"), Name("it"), <<Pass>>, <<>>)>>,
    \* y = [*[1, 2]]
    \* y = [x for x in it]
    <<Assign(Name("y"), List(<<Starred(List(<<Num(1), Num(2)>>))>>)), Assign(Name("y"), ListComp(Name("x"), <<comprehension(Name("x"), Name("it"), <<>>)>>))>>,
    \* y = [*[1, 2]]
    \* y = [*it]
    <<Assign(Name("y"), List(<<Starred(List(<<Num(1), Num(2)>>))>>)), Assign(Name("y"), List(<<Starred(Name("it"))>>))>>,
    \* y = [*[1, 2]]
    \* while 1:
    \*     pass
    <<Assign(Name("y"), List(<<Starred(List(<<Num(1), Num(2)>>))>>)), While(Num(1), <<Pass>>, <<>>)>>,
    \* return [x + y for x in [1, 2] for y in [1] if x]
    <<Return(ListComp(BinOp(Name("x"), "Add", Name("y")), <<comprehension(Name("x"), List(<<Num(1), Num(2)>>), <<>>), comprehension(Name("y"), List(<<Num(1)>>), <<Name("x")>>)>>))>>,
    \* def f(x, y):
    \*     return x + y
    \* return f(*[1, 2])
    <<FunctionDef("f", <<"x", "y">>, <<>>, <<Return(BinOp(Name("x"), "Add", Name("y")))>>), Return(Call(Name("f"), <<Starred(List(<<Num(1), Num(2)>>))>>))>>,
    \* for x in [1, 2]:
    \*     if x - 1:
    \*         break
    \* else:
    \*     return 7
    <<For(Name("x"), List(<<Num(1), Num(2)>>), <<If(BinOp(Name("x"), "Sub", Num(1)), <<Break>>, <<>>)>>, <<Return(Num(7))>>)>>,
    \* for x in 1:
    \*     pass
    <<For(Name("x"), Num(1), <<Pass>>, <<>>)>>,
    \* return [x for x in [[1, 2, 3, 4], [1, 2, 3, 4], [1, 2, 3, 4]]]
    <<Return(ListComp(Name("x"), <<comprehension(Name("x"), List(<<List(<<Num(1), Num(2), Num(3), Num(4)>>), List(<<Num(1), Num(2), Num(3), Num(4)>>), List(<<Num(1), Num(2), Num(3), Num(4)>>)>>), <<>>)>>))>>,
    \* def f():
    \*     pass
    \* f()
    <<FunctionDef("f", <<>>, <<>>, <<Pass>>), Expr(Call(Name("f"), <<>>))>>,
    \* def g():
    \*     pass
    \* def f():
    \*     g()
    \* f()
    <<FunctionDef("g", <<>>, <<>>, <<Pass>>), FunctionDef("f", <<>>, <<>>, <<Expr(Call(Name("g"), <<>>))>>), Expr(Call(Name("f"), <<>>))>>,
    \* def h():
    \*     pass
    \* def g():
    \*     h()
    \* def f():
    \*     g()
    \* f()
    <<FunctionDef("h", <<>>, <<>>, <<Pass>>), FunctionDef("g", <<>>, <<>>, <<Expr(Call(Name("h"), <<>>))>>), FunctionDef("f", <<>>, <<>>, <<Expr(Call(Name("g"), <<>>))>>), Expr(Call(Name("f"), <<>>))>>,
    \* def f():
    \*     f()
    \* f()
    <<FunctionDef("f", <<>>, <<>>, <<Expr(Call(Name("f"), <<>>))>>), Expr(Call(Name("f"), <<>>))>>,
    \* f = lambda: 1
    \* return f()
    <<Assign(Name("f"), Lambda(<<>>, Num(1))), Return(Call(Name("f"), <<>>))>>,
    \* return apply(lambda: 1)
    <<Return(Call(Name("apply"), <<Lambda(<<>>, Num(1))>>))>>,
    \* def f(x):
    \*     pass
    \* f()
    <<FunctionDef("f", <<"x">>, <<>>, <<Pass>>), Expr(Call(Name("f"), <<>>))>>,
    \* def f():
    \*     pass
    \* f(1)
    <<FunctionDef("f", <<>>, <<>>, <<Pass>>), Expr(Call(Name("f"), <<Num(1)>>))>>,
    \* def f(x=1):
    \*     return x
    \* return f()
    <<FunctionDef("f", <<"x">>, <<Num(1)>>, <<Return(Name("x"))>>), Return(Call(Name("f"), <<>>))>>,
    \* def f():
    \*     break
    \* f()
    <<FunctionDef("f", <<>>, <<>>, <<Break>>), Expr(Call(Name("f"), <<>>))>>,
    \* x = 1
    \* x()
    <<Assign(Name("x"), Num(1)), Expr(Call(Name("x"), <<>>))>>,
    \* pass
    \* pass
    \* load(1)
    \* load(1)
    \* load(1)
    \* load(1)
    \* load(1)
    <<Pass, Pass, Expr(Call(Name("load"), <<Num(1)>>)), Expr(Call(Name("load"), <<Num(1)>>)), Expr(Call(Name("load"), <<Num(1)>>)), Expr(Call(Name("load"), <<Num(1)>>)), Expr(Call(Name("load"), <<Num(1)>>))>>,
    \* load(2)
    <<Expr(Call(Name("load"), <<Num(2)>>))>>,
    \* load(3)
    <<Expr(Call(Name("load"), <<Num(3)>>))>>,
    \* load(1)
    \* return y
    <<Expr(Call(Name("load"), <<Num(1)>>)), Return(Name("y"))>>,
    \* load(4)
    <<Expr(Call(Name("load"), <<Num(4)>>))>>,
    \* load(5)
    <<Expr(Call(Name("load"), <<Num(5)>>))>>,
    \* def f(x=obj._hp):
    \*     pass
    \* f()
    <<FunctionDef("f", <<"x">>, <<Attribute(Name("obj"), <<"_", "h", "p">>)>>, <<Pass>>), Expr(Call(Name("f"), <<>>))>>,
    \* x = z._hp
    <<Assign(Name("x"), Attribute(Name("z"), <<"_", "h", "p">>))>>,
    \* x = 1 + 2
    <<Assign(Name("x"), BinOp(Num(1), "Add", Num(2)))>>,
    \* return 2 ** 3 * 2 - 1
    <<Return(BinOp(BinOp(BinOp(Num(2), "Pow", Num(3)), "Mult", Num(2)), "Sub", Num(1)))>>,
    \* return "ab" * 3 + "c"
    <<Return(BinOp(BinOp(Str(<<"a", "b">>), "Mult", Num(3)), "Add", Str(<<"c">>)))>>,
    \* return "abcdef" * 2
    <<Return(BinOp(Str(<<"a", "b", "c", "d", "e", "f">>), "Mult", Num(2)))>>,
    \* x = [1, 2] * 2
    \* return x
    <<Assign(Name("x"), BinOp(List(<<Num(1), Num(2)>>), "Mult", Num(2))), Return(Name("x"))>>,
    \* x = [1] * (0 - 1)
    \* return x
    <<Assign(Name("x"), BinOp(List(<<Num(1)>>), "Mult", BinOp(Num(0), "Sub", Num(1)))), Return(Name("x"))>>,
    \* it = 1
    <<Assign(Name("it"), Num(1))>>,
    \* break
    <<Break>>,
    \* return "a" in "cab"
    <<Return(Compare(Str(<<"a">>), "In", Str(<<"c", "a", "b">>)))>>,
    \* return 1 << 2
    <<Return(BinOp(Num(1), "LShift", Num(2)))>>,
    \* return 1 + "a"
    <<Return(BinOp(Num(1), "Add", Str(<<"a">>)))>>,
    \* return "a" + 1
    <<Return(BinOp(Str(<<"a">>), "Add", Num(1)))>>,
    \* match 1:
    \*     case apply:
    \*         pass
    <<Match(Num(1), <<match_case(MatchAs(Absent, "apply"), Absent, <<Pass>>)>>)>>,
    \* return apply == 1
    <<Return(Compare(Name("apply"), "Eq", Num(1)))>>,
    \* x = 1
    \* match x:
    \*     case 2:
    \*         return 5
    \*     case y if y == 2:
    \*         return 6
    \*     case 1:
    \*         return y
    <<Assign(Name("x"), Num(1)), Match(Name("x"), <<match_case(MatchValue(Num(2)), Absent, <<Return(Num(5))>>), match_case(MatchAs(Absent, "y"), Compare(Name("y"), "Eq", Num(2)), <<Return(Num(6))>>), match_case(MatchValue(Num(1)), Absent, <<Return(Name("y"))>>)>>)>>,
    \* match 1:
    \*     case x if x == 2:
    \*         return 5
    \* return x
    <<Match(Num(1), <<match_case(MatchAs(Absent, "x"), Compare(Name("x"), "Eq", Num(2)), <<Return(Num(5))>>)>>), Return(Name("x"))>>,
    \* match 1:
    \*     case 1 as x:
    \*         return x
    <<Match(Num(1), <<match_case(MatchAs(MatchValue(Num(1)), "x"), Absent, <<Return(Name("x"))>>)>>)>>,
    \* match 1:
    \*     case _ as y:
    \*         return y
    <<Match(Num(1), <<match_case(MatchAs(MatchAs(Absent, ""), "y"), Absent, <<Return(Name("y"))>>)>>)>>,
    \* match 1:
    \*     case _:
    \*         return 2
    <<Match(Num(1), <<match_case(MatchAs(Absent, ""), Absent, <<Return(Num(2))>>)>>)>>,
    \* match 2:
    \*     case 1:
    \*         return 1
    <<Match(Num(2), <<match_case(MatchValue(Num(1)), Absent, <<Return(Num(1))>>)>>)>>,
    \* match 1:
    \*     case int():
    \*         pass
    <<Match(Num(1), <<match_case(MatchClass, Absent, <<Pass>>)>>)>>,
    \* def f():
    \*     match 1:
    \*         case x:
    \*             pass
    \*     return x
    \* f()
    \* return x
    <<FunctionDef("f", <<>>, <<>>, <<Match(Num(1), <<match_case(MatchAs(Absent, "x"), Absent, <<Pass>>)>>), Return(Name("x"))>>), Expr(Call(Name("f"), <<>>)), Return(Name("x"))>>,
    \* for x in [1, 2]:
    \*     match x:
    \*         case 1:
    \*             continue
    \*         case y:
    \*             break
    \* return y
    <<For(Name("x"), List(<<Num(1), Num(2)>>), <<Match(Name("x"), <<match_case(MatchValue(Num(1)), Absent, <<Continue>>), match_case(MatchAs(Absent, "y"), Absent, <<Break>>)>>)>>, <<>>), Return(Name("y"))>>,
    \* match 1:
    \*     case x if z:
    \*         pass
    <<Match(Num(1), <<match_case(MatchAs(Absent, "x"), Name("z"), <<Pass>>)>>)>>,
    \* return x
    <<Return(Name("x"))>>,
    \* match 2:
    \*     case x if x == 1:
    \*         pass
    \*     case y if y == 2:
    \*         return x
    <<Match(Num(2), <<match_case(MatchAs(Absent, "x"), Compare(Name("x"), "Eq", Num(1)), <<Pass>>), match_case(MatchAs(Absent, "y"), Compare(Name("y"), "Eq", Num(2)), <<Return(Name("x"))>>)>>)>>,
    \* x = 1
    \* def g():
    \*     return x
    \* x = 2
    \* return g()
    <<Assign(Name("x"), Num(1)), FunctionDef("g", <<>>, <<>>, <<Return(Name("x"))>>), Assign(Name("x"), Num(2)), Return(Call(Name("g"), <<>>))>>,
    \* x = 1
    \* g = lambda: x
    \* x = 2
    \* return g()
    <<Assign(Name("x"), Num(1)), Assign(Name("g"), Lambda(<<>>, Name("x"))), Assign(Name("x"), Num(2)), Return(Call(Name("g"), <<>>))>>,
    \* def g():
    \*     return x
    \* x = 1
    \* return g()
    <<FunctionDef("g", <<>>, <<>>, <<Return(Name("x"))>>), Assign(Name("x"), Num(1)), Return(Call(Name("g"), <<>>))>>,
    \* x = 1
    \* def g():
    \*     return x
    \* def h():
    \*     y = 3
    \*     return g() + z
    <<Assign(Name("x"), Num(1)), FunctionDef("g", <<>>, <<>>, <<Return(Name("x"))>>), FunctionDef("h", <<>>, <<>>, <<Assign(Name("y"), Num(3)), Return(BinOp(Call(Name("g"), <<>>), "Add", Name("z")))>>)>>,
    \* x = 5
    \* return g()
    <<Assign(Name("x"), Num(5)), Return(Call(Name("g"), <<>>))>>,
    \* return h()
    <<Return(Call(Name("h"), <<>>))>>,
    \* def g():
    \*     return z
    \* def h():
    \*     x = 1
    \*     return g()
    <<FunctionDef("g", <<>>, <<>>, <<Return(Name("z"))>>), FunctionDef("h", <<>>, <<>>, <<Assign(Name("x"), Num(1)), Return(Call(Name("g"), <<>>))>>)>>,
    \* x = 2
    \* try:
    \*     h()
    \* except:
    \*     return x
    <<Assign(Name("x"), Num(2)), Try(<<Expr(Call(Name("h"), <<>>))>>, <<ExceptHandler(Absent, "", <<Return(Name("x"))>>)>>, <<>>, <<>>)>>,
    \* x = 1
    \* def f(y):
    \*     x = 2
    \*     y = 3
    \*     def g():
    \*         pass
    \*     return x
    \* f(5)
    \* return x
    <<Assign(Name("x"), Num(1)), FunctionDef("f", <<"y">>, <<>>, <<Assign(Name("x"), Num(2)), Assign(Name("y"), Num(3)), FunctionDef("g", <<>>, <<>>, <<Pass>>), Return(Name("x"))>>), Expr(Call(Name("f"), <<Num(5)>>)), Return(Name("x"))>>,
    \* return y
    <<Return(Name("y"))>>,
    \* def f(x=z):
    \*     pass
    \* x = 1
    \* try:
    \*     f()
    \* finally:
    \*     return x
    <<FunctionDef("f", <<"x">>, <<Name("z")>>, <<Pass>>), Assign(Name("x"), Num(1)), Try(<<Expr(Call(Name("f"), <<>>))>>, <<>>, <<>>, <<Return(Name("x"))>>)>>,
    \* def f():
    \*     x = 1
    \*     def g():
    \*         return x
    \*     x = 2
    \*     return g()
    \* return f()
    <<FunctionDef("f", <<>>, <<>>, <<Assign(Name("x"), Num(1)), FunctionDef("g", <<>>, <<>>, <<Return(Name("x"))>>), Assign(Name("x"), Num(2)), Return(Call(Name("g"), <<>>))>>), Return(Call(Name("f"), <<>>))>>,
    \* def f(apply):
    \*     return apply
    \* return f(1)
    <<FunctionDef("f", <<"apply">>, <<>>, <<Return(Name("apply"))>>), Return(Call(Name("f"), <<Num(1)>>))>>,
    \* try:
    \*     z
    \* except ('TypeError', 'NotDefined'):
    \*     return 1
    <<Try(<<Expr(Name("z"))>>, <<ExceptHandler(Tuple(<<Str(<<"T", "y", "p", "e", "E", "r", "r", "o", "r">>), Str(<<"N", "o", "t", "D", "e", "f", "i", "n", "e", "d">>)>>), "", <<Return(Num(1))>>)>>, <<>>, <<>>)>>,
    \* try:
    \*     z
    \* except ('TypeError', 'KeyError'):
    \*     return 1
    \* except:
    \*     return 2
    <<Try(<<Expr(Name("z"))>>, <<ExceptHandler(Tuple(<<Str(<<"T", "y", "p", "e", "E", "r", "r", "o", "r">>), Str(<<"K", "e", "y", "E", "r", "r", "o", "r">>)>>), "", <<Return(Num(1))>>), ExceptHandler(Absent, "", <<Return(Num(2))>>)>>, <<>>, <<>>)>>,
    \* try:
    \*     z
    \* except 'TypeError':
    \*     return 1
    \* except 'NotDefined':
    \*     return 2
    \* except:
    \*     return 3
    <<Try(<<Expr(Name("z"))>>, <<ExceptHandler(Str(<<"T", "y", "p", "e", "E", "r", "r", "o", "r">>), "", <<Return(Num(1))>>), ExceptHandler(Str(<<"N", "o", "t", "D", "e", "f", "i", "n", "e", "d">>), "", <<Return(Num(2))>>), ExceptHandler(Absent, "", <<Return(Num(3))>>)>>, <<>>, <<>>)>>,
    \* try:
    \*     z
    \* except ('TypeError', z):
    \*     return 1
    <<Try(<<Expr(Name("z"))>>, <<ExceptHandler(Tuple(<<Str(<<"T", "y", "p", "e", "E", "r", "r", "o", "r">>), Name("z")>>), "", <<Return(Num(1))>>)>>, <<>>, <<>>)>>,
    \* try:
    \*     z
    \* except ():
    \*     return 1
    \* finally:
    \*     x = 1
    <<Try(<<Expr(Name("z"))>>, <<ExceptHandler(Tuple(<<>>), "", <<Return(Num(1))>>)>>, <<>>, <<Assign(Name("x"), Num(1))>>)>>,
    \* def f():
    \*     return z
    \* try:
    \*     f()
    \* except 'NotDefined':
    \*     return 1
    <<FunctionDef("f", <<>>, <<>>, <<Return(Name("z"))>>), Try(<<Expr(Call(Name("f"), <<>>))>>, <<ExceptHandler(Str(<<"N", "o", "t", "D", "e", "f", "i", "n", "e", "d">>), "", <<Return(Num(1))>>)>>, <<>>, <<>>)>>,
    \* def f():
    \*     return z
    \* try:
    \*     f()
    \* except ('NestedException', 'KeyError'):
    \*     return 1
    \* except ('NotDefined',):
    \*     return 2
    <<FunctionDef("f", <<>>, <<>>, <<Return(Name("z"))>>), Try(<<Expr(Call(Name("f"), <<>>))>>, <<ExceptHandler(Tuple(<<Str(<<"N", "e", "s", "t", "e", "d", "E", "x", "c", "e", "p", "t", "i", "o", "n">>), Str(<<"K", "e", "y", "E", "r", "r", "o", "r">>)>>), "", <<Return(Num(1))>>), ExceptHandler(Tuple(<<Str(<<"N", "o", "t", "D", "e", "f", "i", "n", "e", "d">>)>>), "", <<Return(Num(2))>>)>>, <<>>, <<>>)>>,
    \* try:
    \*     z
    \* except z:
    \*     return 1
    <<Try(<<Expr(Name("z"))>>, <<ExceptHandler(Name("z"), "", <<Return(Num(1))>>)>>, <<>>, <<>>)>>,
    \* try:
    \*     z
    \* except 'NotDefined':
    \*     y
    \* except:
    \*     return 2
    <<Try(<<Expr(Name("z"))>>, <<ExceptHandler(Str(<<"N", "o", "t", "D", "e", "f", "i", "n", "e", "d">>), "", <<Expr(Name("y"))>>), ExceptHandler(Absent, "", <<Return(Num(2))>>)>>, <<>>, <<>>)>>,
    \* try:
    \*     return 1
    \* except:
    \*     pass
    \* else:
    \*     x = 1
    \* finally:
    \*     y = 2
    <<Try(<<Return(Num(1))>>, <<ExceptHandler(Absent, "", <<Pass>>)>>, <<Assign(Name("x"), Num(1))>>, <<Assign(Name("y"), Num(2))>>)>>,
    \* try:
    \*     1 + 'a'
    \* except ('aaaaaa', 'bbbbbb'):
    \*     pass
    \* except:
    \*     return 2
    <<Try(<<Expr(BinOp(Num(1), "Add", Str(<<"a">>)))>>, <<ExceptHandler(Tuple(<<Str(<<"a", "a", "a", "a", "a", "a">>), Str(<<"b", "b", "b", "b", "b", "b">>)>>), "", <<Pass>>), ExceptHandler(Absent, "", <<Return(Num(2))>>)>>, <<>>, <<>>)>>,
    \* try:
    \*     1 + 'a'
    \* except ('aaaaaaaaaaaa', 'b'):
    \*     pass
    \* finally:
    \*     x = 2
    <<Try(<<Expr(BinOp(Num(1), "Add", Str(<<"a">>)))>>, <<ExceptHandler(Tuple(<<Str(<<"a", "a", "a", "a", "a", "a", "a", "a", "a", "a", "a", "a">>), Str(<<"b">>)>>), "", <<Pass>>)>>, <<>>, <<Assign(Name("x"), Num(2))>>)>>,
    \* try:
    \*     z
    \* except 'NotDefined' as x:
    \*     return 1
    <<Try(<<Expr(Name("z"))>>, <<ExceptHandler(Str(<<"N", "o", "t", "D", "e", "f", "i", "n", "e", "d">>), "x", <<Return(Num(1))>>)>>, <<>>, <<>>)>>,
    \* x = (1, 2)
    \* return 1 in x
    <<Assign(Name("x"), Tuple(<<Num(1), Num(2)>>)), Return(Compare(Num(1), "In", Name("x")))>>,
    \* for x in [1, 2]:
    \*     try:
    \*         continue
    \*     except:
    \*         pass
    \*     else:
    \*         return 5
    \*     finally:
    \*         y = x
    \* return y
    <<For(Name("x"), List(<<Num(1), Num(2)>>), <<Try(<<Continue>>, <<ExceptHandler(Absent, "", <<Pass>>)>>, <<Return(Num(5))>>, <<Assign(Name("y"), Name("x"))>>)>>, <<>>), Return(Name("y"))>>,
    \* while 1:
    \*     try:
    \*         z
    \*     except:
    \*         break
    \*     else:
    \*         return 5
    \*     finally:
    \*         y = 1
    \* return y
    <<While(Num(1), <<Try(<<Expr(Name("z"))>>, <<ExceptHandler(Absent, "", <<Break>>)>>, <<Return(Num(5))>>, <<Assign(Name("y"), Num(1))>>)>>, <<>>), Return(Name("y"))>>,
    \* try:
    \*     x = 1
    \* except:
    \*     return 2
    \* else:
    \*     z
    \* finally:
    \*     y = 1
    <<Try(<<Assign(Name("x"), Num(1))>>, <<ExceptHandler(Absent, "", <<Return(Num(2))>>)>>, <<Expr(Name("z"))>>, <<Assign(Name("y"), Num(1))>>)>>,
    \* try:
    \*     z
    \* except:
    \*     return 2
    \* finally:
    \*     return 1
    <<Try(<<Expr(Name("z"))>>, <<ExceptHandler(Absent, "", <<Return(Num(2))>>)>>, <<>>, <<Return(Num(1))>>)>>,
    \* for x in [1]:
    \*     try:
    \*         z
    \*     except:
    \*         continue
    \*     finally:
    \*         break
    \* return 7
    <<For(Name("x"), List(<<Num(1)>>), <<Try(<<Expr(Name("z"))>>, <<ExceptHandler(Absent, "", <<Continue>>)>>, <<>>, <<Break>>)>>, <<>>), Return(Num(7))>>,
    \* try:
    \*     x = 1
    \* except:
    \*     pass
    \* else:
    \*     return 2
    \* finally:
    \*     y = 1
    <<Try(<<Assign(Name("x"), Num(1))>>, <<ExceptHandler(Absent, "", <<Pass>>)>>, <<Return(Num(2))>>, <<Assign(Name("y"), Num(1))>>)>>,
    \* try:
    \*     1 < 'a'
    \* except 'KeyError':
    \*     return 1
    \* except ('TypeError',):
    \*     return 2
    \* except:
    \*     return 3
    <<Try(<<Expr(Compare(Num(1), "Lt", Str(<<"a">>)))>>, <<ExceptHandler(Str(<<"K", "e", "y", "E", "r", "r", "o", "r">>), "", <<Return(Num(1))>>), ExceptHandler(Tuple(<<Str(<<"T", "y", "p", "e", "E", "r", "r", "o", "r">>)>>), "", <<Return(Num(2))>>), ExceptHandler(Absent, "", <<Return(Num(3))>>)>>, <<>>, <<>>)>>,
    \* pass
    \* pass
    \* pass
    \* pass
    \* pass
    \* pass
    \* pass
    \* pass
    \* pass
    \* pass
    \* pass
    \* pass
    \* pass
    \* pass
    \* pass
    \* pass
    \* pass
    \* pass
    \* pass
    \* pass
    \* pass
    \* try:
    \*     z
    \* except ('KeyError',):
    \*     return 1
    \* except:
    \*     return 2
    <<Pass, Pass, Pass, Pass, Pass, Pass, Pass, Pass, Pass, Pass, Pass, Pass, Pass, Pass, Pass, Pass, Pass, Pass, Pass, Pass, Pass, Try(<<Expr(Name("z"))>>, <<ExceptHandler(Tuple(<<Str(<<"K", "e", "y", "E", "r", "r", "o", "r">>)>>), "", <<Return(Num(1))>>), ExceptHandler(Absent, "", <<Return(Num(2))>>)>>, <<>>, <<>>)>>,
    \* try:
    \*     z
    \* except ('KeyError', 'a'):
    \*     return 1
    \* except 'NotDefined':
    \*     return 2
    \* except:
    \*     return 3
    <<Try(<<Expr(Name("z"))>>, <<ExceptHandler(Tuple(<<Str(<<"K", "e", "y", "E", "r", "r", "o", "r">>), Str(<<"a">>)>>), "", <<Return(Num(1))>>), ExceptHandler(Str(<<"N", "o", "t", "D", "e", "f", "i", "n", "e", "d">>), "", <<Return(Num(2))>>), ExceptHandler(Absent, "", <<Return(Num(3))>>)>>, <<>>, <<>>)>>,
    \* def f():
    \*     break
    \* for x in [1, 2]:
    \*     f()
    <<FunctionDef("f", <<>>, <<>>, <<Break>>), For(Name("x"), List(<<Num(1), Num(2)>>), <<Expr(Call(Name("f"), <<>>))>>, <<>>)>>,
    \* def f():
    \*     continue
    \* x = 1
    \* while x:
    \*     x = 0
    \*     try:
    \*         f()
    \*     except:
    \*         y = 1
    \* return y
    <<FunctionDef("f", <<>>, <<>>, <<Continue>>), Assign(Name("x"), Num(1)), While(Name("x"), <<Assign(Name("x"), Num(0)), Try(<<Expr(Call(Name("f"), <<>>))>>, <<ExceptHandler(Absent, "", <<Assign(Name("y"), Num(1))>>)>>, <<>>, <<>>)>>, <<>>), Return(Name("y"))>>,
    \* x = 1
    \* while x:
    \*     x = 0
    \*     continue
    \* return 3
    <<Assign(Name("x"), Num(1)), While(Name("x"), <<Assign(Name("x"), Num(0)), Continue>>, <<>>), Return(Num(3))>>,
    \* for x in [1, 2]:
    \*     for y in [1]:
    \*         pass
    \*     else:
    \*         break
    \* return x
    <<For(Name("x"), List(<<Num(1), Num(2)>>), <<For(Name("y"), List(<<Num(1)>>), <<Pass>>, <<Break>>)>>, <<>>), Return(Name("x"))>>,
    \* for x in [1, 2]:
    \*     match x:
    \*         case 1:
    \*             break
    \* return x
    <<For(Name("x"), List(<<Num(1), Num(2)>>), <<Match(Name("x"), <<match_case(MatchValue(Num(1)), Absent, <<Break>>)>>)>>, <<>>), Return(Name("x"))>>,
    \* match 1:
    \*     case 1:
    \*         continue
    <<Match(Num(1), <<match_case(MatchValue(Num(1)), Absent, <<Continue>>)>>)>>,
    \* for x in [1]:
    \*     apply(lambda: 1)
    \*     break
    \* else:
    \*     return 2
    \* return 3
    <<For(Name("x"), List(<<Num(1)>>), <<Expr(Call(Name("apply"), <<Lambda(<<>>, Num(1))>>)), Break>>, <<Return(Num(2))>>), Return(Num(3))>>,
    \* x = 7
    \* p = (x for x in [1, 2, 3])
    \* for y in p:
    \*     break
    \* return x
    <<Assign(Name("x"), Num(7)), Assign(Name("p"), GeneratorExp(Name("x"), <<comprehension(Name("x"), List(<<Num(1), Num(2), Num(3)>>), <<>>)>>)), For(Name("y"), Name("p"), <<Break>>, <<>>), Return(Name("x"))>>,
    \* return x
    <<Return(Name("x"))>>,
    \* x = 7
    \* for y in (x for x in [1, 2, 3]):
    \*     break
    \* return x
    <<Assign(Name("x"), Num(7)), For(Name("y"), GeneratorExp(Name("x"), <<comprehension(Name("x"), List(<<Num(1), Num(2), Num(3)>>), <<>>)>>), <<Break>>, <<>>), Return(Name("x"))>>,
    \* p = (x for x in [1])
    \* for f in p:
    \*     break
    <<Assign(Name("p"), GeneratorExp(Name("x"), <<comprehension(Name("x"), List(<<Num(1)>>), <<>>)>>)), For(Name("f"), Name("p"), <<Break>>, <<>>)>>,
    \* q = (y for y in [3])
    \* for g in q:
    \*     break
    \* for f in p:
    \*     pass
    \* for g in q:
    \*     pass
    \* return x
    <<Assign(Name("q"), GeneratorExp(Name("y"), <<comprehension(Name("y"), List(<<Num(3)>>), <<>>)>>)), For(Name("g"), Name("q"), <<Break>>, <<>>), For(Name("f"), Name("p"), <<Pass>>, <<>>), For(Name("g"), Name("q"), <<Pass>>, <<>>), Return(Name("x"))>>,
    \* p = (x for x in [1, 2])
    \* for y in p:
    \*     pass
    \* return x
    <<Assign(Name("p"), GeneratorExp(Name("x"), <<comprehension(Name("x"), List(<<Num(1), Num(2)>>), <<>>)>>)), For(Name("y"), Name("p"), <<Pass>>, <<>>), Return(Name("x"))>>,
    \* p = (x for x in [1, z])
    \* for y in p:
    \*     pass
    <<Assign(Name("p"), GeneratorExp(Name("x"), <<comprehension(Name("x"), List(<<Num(1), Name("z")>>), <<>>)>>)), For(Name("y"), Name("p"), <<Pass>>, <<>>)>>,
    \* for y in p:
    \*     return 5
    \* return 6
    <<For(Name("y"), Name("p"), <<Return(Num(5))>>, <<>>), Return(Num(6))>>,
    \* p = 1
    \* return x
    <<Assign(Name("p"), Num(1)), Return(Name("x"))>>,
    \* p = (x for x in [1, 2])
    \* for y in p:
    \*     return [x for x in p]
    <<Assign(Name("p"), GeneratorExp(Name("x"), <<comprehension(Name("x"), List(<<Num(1), Num(2)>>), <<>>)>>)), For(Name("y"), Name("p"), <<Return(ListComp(Name("x"), <<comprehension(Name("x"), Name("p"), <<>>)>>))>>, <<>>)>>,
    \* p = (x for x in [1, 2])
    \* for y in p:
    \*     return [*p]
    <<Assign(Name("p"), GeneratorExp(Name("x"), <<comprehension(Name("x"), List(<<Num(1), Num(2)>>), <<>>)>>)), For(Name("y"), Name("p"), <<Return(List(<<Starred(Name("p"))>>))>>, <<>>)>>,
    \* p = (x for x in [1, 2])
    \* for y in p:
    \*     for x in p:
    \*         pass
    \* return y
    <<Assign(Name("p"), GeneratorExp(Name("x"), <<comprehension(Name("x"), List(<<Num(1), Num(2)>>), <<>>)>>)), For(Name("y"), Name("p"), <<For(Name("x"), Name("p"), <<Pass>>, <<>>)>>, <<>>), Return(Name("y"))>>,
    \* p = (y for x in [1, 2] for y in [x, 3])
    \* for y in p:
    \*     break
    \* return y
    <<Assign(Name("p"), GeneratorExp(Name("y"), <<comprehension(Name("x"), List(<<Num(1), Num(2)>>), <<>>), comprehension(Name("y"), List(<<Name("x"), Num(3)>>), <<>>)>>)), For(Name("y"), Name("p"), <<Break>>, <<>>), Return(Name("y"))>>,
    \* x = 5
    \* y = [x for x in [1]]
    \* return x
    <<Assign(Name("x"), Num(5)), Assign(Name("y"), ListComp(Name("x"), <<comprehension(Name("x"), List(<<Num(1)>>), <<>>)>>)), Return(Name("x"))>>,
    \* for y in p:
    \*     break
    \* return x
    <<For(Name("y"), Name("p"), <<Break>>, <<>>), Return(Name("x"))>>,
    \* p = (x for x in [1] if x == 2)
    \* for y in p:
    \*     return y
    \* else:
    \*     return 3
    <<Assign(Name("p"), GeneratorExp(Name("x"), <<comprehension(Name("x"), List(<<Num(1)>>), <<Compare(Name("x"), "Eq", Num(2))>>)>>)), For(Name("y"), Name("p"), <<Return(Name("y"))>>, <<Return(Num(3))>>)>>,
    \* p = (x for x in [1])
    \* for y in p:
    \*     pass
    \* return x
    <<Assign(Name("p"), GeneratorExp(Name("x"), <<comprehension(Name("x"), List(<<Num(1)>>), <<>>)>>)), For(Name("y"), Name("p"), <<Pass>>, <<>>), Return(Name("x"))>>,
    \* p = (x for x in [1])
    \* return [y for y in p]
    <<Assign(Name("p"), GeneratorExp(Name("x"), <<comprehension(Name("x"), List(<<Num(1)>>), <<>>)>>)), Return(ListComp(Name("y"), <<comprehension(Name("y"), Name("p"), <<>>)>>))>>,
    \* p = (x for x in [*p])
    \* for y in p:
    \*     pass
    <<Assign(Name("p"), GeneratorExp(Name("x"), <<comprehension(Name("x"), List(<<Starred(Name("p"))>>), <<>>)>>)), For(Name("y"), Name("p"), <<Pass>>, <<>>)>>,
    \* p = (x for x in [1])
    \* return [*p]
    <<Assign(Name("p"), GeneratorExp(Name("x"), <<comprehension(Name("x"), List(<<Num(1)>>), <<>>)>>)), Return(List(<<Starred(Name("p"))>>))>>,
    \* def f():
    \*     return 1 < 'a'
    \* def g():
    \*     return f()
    \* g()
    <<FunctionDef("f", <<>>, <<>>, <<Return(Compare(Num(1), "Lt", Str(<<"a">>)))>>), FunctionDef("g", <<>>, <<>>, <<Return(Call(Name("f"), <<>>))>>), Expr(Call(Name("g"), <<>>))>>,
    \* def f():
    \*     z
    \* def g():
    \*     f()
    \* def h():
    \*     g()
    \* h()
    <<FunctionDef("f", <<>>, <<>>, <<Expr(Name("z"))>>), FunctionDef("g", <<>>, <<>>, <<Expr(Call(Name("f"), <<>>))>>), FunctionDef("h", <<>>, <<>>, <<Expr(Call(Name("g"), <<>>))>>), Expr(Call(Name("h"), <<>>))>>,
    \* def f():
    \*     load(2)
    \* f()
    <<FunctionDef("f", <<>>, <<>>, <<Expr(Call(Name("load"), <<Num(2)>>))>>), Expr(Call(Name("f"), <<>>))>>,
    \* def f():
    \*     load(3)
    \* def g():
    \*     f()
    \* g()
    <<FunctionDef("f", <<>>, <<>>, <<Expr(Call(Name("load"), <<Num(3)>>))>>), FunctionDef("g", <<>>, <<>>, <<Expr(Call(Name("f"), <<>>))>>), Expr(Call(Name("g"), <<>>))>>,
    \* def f():
    \*     z
    \* def g():
    \*     apply(f)
    \* g()
    <<FunctionDef("f", <<>>, <<>>, <<Expr(Name("z"))>>), FunctionDef("g", <<>>, <<>>, <<Expr(Call(Name("apply"), <<Name("f")>>))>>), Expr(Call(Name("g"), <<>>))>>,
    \* def f():
    \*     z
    \* def g():
    \*     try:
    \*         f()
    \*     finally:
    \*         pass
    \* g()
    <<FunctionDef("f", <<>>, <<>>, <<Expr(Name("z"))>>), FunctionDef("g", <<>>, <<>>, <<Try(<<Expr(Call(Name("f"), <<>>))>>, <<>>, <<>>, <<Pass>>)>>), Expr(Call(Name("g"), <<>>))>>,
    \* def f():
    \*     z
    \* def g():
    \*     try:
    \*         f()
    \*     except 'abcdefghijkl':
    \*         pass
    \* g()
    <<FunctionDef("f", <<>>, <<>>, <<Expr(Name("z"))>>), FunctionDef("g", <<>>, <<>>, <<Try(<<Expr(Call(Name("f"), <<>>))>>, <<ExceptHandler(Str(<<"a", "b", "c", "d", "e", "f", "g", "h", "i", "j", "k", "l">>), "", <<Pass>>)>>, <<>>, <<>>)>>), Expr(Call(Name("g"), <<>>))>>,
    \* def f(x=z):
    \*     pass
    \* def g():
    \*     f()
    \* g()
    <<FunctionDef("f", <<"x">>, <<Name("z")>>, <<Pass>>), FunctionDef("g", <<>>, <<>>, <<Expr(Call(Name("f"), <<>>))>>), Expr(Call(Name("g"), <<>>))>>,
    \* def f(x):
    \*     pass
    \* def g():
    \*     f()
    \* g()
    <<FunctionDef("f", <<"x">>, <<>>, <<Pass>>), FunctionDef("g", <<>>, <<>>, <<Expr(Call(Name("f"), <<>>))>>), Expr(Call(Name("g"), <<>>))>>,
    \* def f():
    \*     break
    \* def g():
    \*     f()
    \* g()
    <<FunctionDef("f", <<>>, <<>>, <<Break>>), FunctionDef("g", <<>>, <<>>, <<Expr(Call(Name("f"), <<>>))>>), Expr(Call(Name("g"), <<>>))>>,
    \* def f():
    \*     z
    \* def g():
    \*     return [f() for x in [1]]
    \* g()
    <<FunctionDef("f", <<>>, <<>>, <<Expr(Name("z"))>>), FunctionDef("g", <<>>, <<>>, <<Return(ListComp(Call(Name("f"), <<>>), <<comprehension(Name("x"), List(<<Num(1)>>), <<>>)>>))>>), Expr(Call(Name("g"), <<>>))>>,
    \* return [y for x in [1, 2] for y in ['abcdef']]
    <<Return(ListComp(Name("y"), <<comprehension(Name("x"), List(<<Num(1), Num(2)>>), <<>>), comprehension(Name("y"), List(<<Str(<<"a", "b", "c", "d", "e", "f">>)>>), <<>>)>>))>>,
    \* return [y for y in ['abcdef', 'abcd']]
    <<Return(ListComp(Name("y"), <<comprehension(Name("y"), List(<<Str(<<"a", "b", "c", "d", "e", "f">>), Str(<<"a", "b", "c", "d">>)>>), <<>>)>>))>>,
    \* return [y for x in [1] for y in ['abcdef', 'abcd']]
    <<Return(ListComp(Name("y"), <<comprehension(Name("x"), List(<<Num(1)>>), <<>>), comprehension(Name("y"), List(<<Str(<<"a", "b", "c", "d", "e", "f">>), Str(<<"a", "b", "c", "d">>)>>), <<>>)>>))>>,
    \* return [y for y in ['abcd', 'abcd']]
    <<Return(ListComp(Name("y"), <<comprehension(Name("y"), List(<<Str(<<"a", "b", "c", "d">>), Str(<<"a", "b", "c", "d">>)>>), <<>>)>>))>>,
    \* return [x for x in [1, 2, 3, 4]]
    <<Return(ListComp(Name("x"), <<comprehension(Name("x"), List(<<Num(1), Num(2), Num(3), Num(4)>>), <<>>)>>))>>,
    \* def f(x, y=x):
    \*     return y
    \* return f(2)
    <<FunctionDef("f", <<"x", "y">>, <<Name("x")>>, <<Return(Name("y"))>>), Return(Call(Name("f"), <<Num(2)>>))>>,
    \* def f(x=z):
    \*     return x
    \* return f(1)
    <<FunctionDef("f", <<"x">>, <<Name("z")>>, <<Return(Name("x"))>>), Return(Call(Name("f"), <<Num(1)>>))>>,
    \* def f(x=z):
    \*     pass
    <<FunctionDef("f", <<"x">>, <<Name("z")>>, <<Pass>>)>>,
    \* def f(x=y):
    \*     return x
    \* y = 1
    \* f()
    \* y = 2
    \* return f()
    <<FunctionDef("f", <<"x">>, <<Name("y")>>, <<Return(Name("x"))>>), Assign(Name("y"), Num(1)), Expr(Call(Name("f"), <<>>)), Assign(Name("y"), Num(2)), Return(Call(Name("f"), <<>>))>>,
    \* def f(x=1, y=x):
    \*     return y
    \* return f()
    <<FunctionDef("f", <<"x", "y">>, <<Num(1), Name("x")>>, <<Return(Name("y"))>>), Return(Call(Name("f"), <<>>))>>,
    \* def f(x, y=1):
    \*     return y
    \* return f()
    <<FunctionDef("f", <<"x", "y">>, <<Num(1)>>, <<Return(Name("y"))>>), Return(Call(Name("f"), <<>>))>>,
    \* x = 1
    \* while x:
    \*     x = 0
    \* else:
    \*     return 4
    \* return 5
    <<Assign(Name("x"), Num(1)), While(Name("x"), <<Assign(Name("x"), Num(0))>>, <<Return(Num(4))>>), Return(Num(5))>>,
    \* while 1:
    \*     break
    \* else:
    \*     return 4
    \* return 5
    <<While(Num(1), <<Break>>, <<Return(Num(4))>>), Return(Num(5))>>,
    \* for x in [1]:
    \*     return 1
    \* else:
    \*     return 2
    <<For(Name("x"), List(<<Num(1)>>), <<Return(Num(1))>>, <<Return(Num(2))>>)>>,
    \* for x in [1, 2]:
    \*     while 0:
    \*         pass
    \*     else:
    \*         continue
    \*     return 9
    \* return x
    <<For(Name("x"), List(<<Num(1), Num(2)>>), <<While(Num(0), <<Pass>>, <<Continue>>), Return(Num(9))>>, <<>>), Return(Name("x"))>>,
    \* for x in [1]:
    \*     continue
    \* else:
    \*     return 6
    \* return 7
    <<For(Name("x"), List(<<Num(1)>>), <<Continue>>, <<Return(Num(6))>>), Return(Num(7))>>,
    \* while 0:
    \*     pass
    \* else:
    \*     z
    <<While(Num(0), <<Pass>>, <<Expr(Name("z"))>>)>>,
    \* x = 1
    \* while x:
    \*     for y in [1]:
    \*         pass
    \*     else:
    \*         break
    \* else:
    \*     return 4
    \* return 5
    <<Assign(Name("x"), Num(1)), While(Name("x"), <<For(Name("y"), List(<<Num(1)>>), <<Pass>>, <<Break>>)>>, <<Return(Num(4))>>), Return(Num(5))>>
>>

Exprs == <<
    \* 2 in it
    <<Expr(Compare(Num(2), "In", Name("it")))>>,
    \* 1 in it
    <<Expr(Compare(Num(1), "In", Name("it")))>>,
    \* obj._hp
    <<Expr(Attribute(Name("obj"), <<"_", "h", "p">>))>>,
    \* obj.func_hp
    <<Expr(Attribute(Name("obj"), <<"f", "u", "n", "c", "_", "h", "p">>))>>,
    \* obj.hp
    <<Expr(Attribute(Name("obj"), <<"h", "p">>))>>,
    \* obj.format
    <<Expr(Attribute(Name("obj"), <<"f", "o", "r", "m", "a", "t">>))>>,
    \* obj.mro
    <<Expr(Attribute(Name("obj"), <<"m", "r", "o">>))>>,
    \* z._hp
    <<Expr(Attribute(Name("z"), <<"_", "h", "p">>))>>,
    \* z.hp
    <<Expr(Attribute(Name("z"), <<"h", "p">>))>>,
    \* obj._hp.hp
    <<Expr(Attribute(Attribute(Name("obj"), <<"_", "h", "p">>), <<"h", "p">>))>>,
    \* obj.hp.hp
    <<Expr(Attribute(Attribute(Name("obj"), <<"h", "p">>), <<"h", "p">>))>>,
    \* f"a{obj._hp}"
    <<Expr(JoinedStr(<<Str(<<"a">>), FormattedValue(Attribute(Name("obj"), <<"_", "h", "p">>))>>))>>,
    \* f"a{obj.hp}{1 + 11}"
    <<Expr(JoinedStr(<<Str(<<"a">>), FormattedValue(Attribute(Name("obj"), <<"h", "p">>)), FormattedValue(BinOp(Num(1), "Add", Num(11)))>>))>>,
    \* f"aaaaaa{12345}"
    <<Expr(JoinedStr(<<Str(<<"a", "a", "a", "a", "a", "a">>), FormattedValue(Num(12345))>>))>>,
    \* [obj._hp for x in [1]]
    <<Expr(ListComp(Attribute(Name("obj"), <<"_", "h", "p">>), <<comprehension(Name("x"), List(<<Num(1)>>), <<>>)>>))>>,
    \* apply(lambda: obj._hp)
    <<Expr(Call(Name("apply"), <<Lambda(<<>>, Attribute(Name("obj"), <<"_", "h", "p">>))>>))>>,
    \* apply(lambda: obj.hp)
    <<Expr(Call(Name("apply"), <<Lambda(<<>>, Attribute(Name("obj"), <<"h", "p">>))>>))>>,
    \* 1 in [1, 2]
    <<Expr(Compare(Num(1), "In", List(<<Num(1), Num(2)>>)))>>,
    \* break
    <<Break>>,
    \* continue
    <<Continue>>
>>

\* the scripts a host runs before its last one: each leaves something behind in the
\* interpreter (names, functions, a recursion depth, a generator) or nothing at all
Setups == <<
    \* pass
    <<Pass>>,
    \* def f():
    \*     f()
    \* f()
    <<FunctionDef("f", <<>>, <<>>, <<Expr(Call(Name("f"), <<>>))>>), Expr(Call(Name("f"), <<>>))>>,
    \* x = 1 + 2
    <<Assign(Name("x"), BinOp(Num(1), "Add", Num(2)))>>,
    \* def f():
    \*     f()
    \* try:
    \*     f()
    \* finally:
    \*     return 1
    <<FunctionDef("f", <<>>, <<>>, <<Expr(Call(Name("f"), <<>>))>>), Try(<<Expr(Call(Name("f"), <<>>))>>, <<>>, <<>>, <<Return(Num(1))>>)>>,
    \* y = [*[1, 2]]
    \* for x in it:
    \*     pass
    <<Assign(Name("y"), List(<<Starred(List(<<Num(1), Num(2)>>))>>)), For(Name("x"), Name("it"), <<Pass>>, <<>>)>>,
    \* def f(x):
    \*     pass
    \* f()
    <<FunctionDef("f", <<"x">>, <<>>, <<Pass>>), Expr(Call(Name("f"), <<>>))>>,
    \* load(1)
    \* return y
    <<Expr(Call(Name("load"), <<Num(1)>>)), Return(Name("y"))>>,
    \* def h():
    \*     pass
    \* def g():
    \*     h()
    \* def f():
    \*     g()
    \* f()
    <<FunctionDef("h", <<>>, <<>>, <<Pass>>), FunctionDef("g", <<>>, <<>>, <<Expr(Call(Name("h"), <<>>))>>), FunctionDef("f", <<>>, <<>>, <<Expr(Call(Name("g"), <<>>))>>), Expr(Call(Name("f"), <<>>))>>,
    \* x = 1
    \* def g():
    \*     return x
    \* def h():
    \*     y = 3
    \*     return g() + z
    <<Assign(Name("x"), Num(1)), FunctionDef("g", <<>>, <<>>, <<Return(Name("x"))>>), FunctionDef("h", <<>>, <<>>, <<Assign(Name("y"), Num(3)), Return(BinOp(Call(Name("g"), <<>>), "Add", Name("z")))>>)>>,
    \* def g():
    \*     return z
    \* def h():
    \*     x = 1
    \*     return g()
    <<FunctionDef("g", <<>>, <<>>, <<Return(Name("z"))>>), FunctionDef("h", <<>>, <<>>, <<Assign(Name("x"), Num(1)), Return(Call(Name("g"), <<>>))>>)>>,
    \* match 1:
    \*     case apply:
    \*         pass
    <<Match(Num(1), <<match_case(MatchAs(Absent, "apply"), Absent, <<Pass>>)>>)>>,
    \* match 1:
    \*     case x if z:
    \*         pass
    <<Match(Num(1), <<match_case(MatchAs(Absent, "x"), Name("z"), <<Pass>>)>>)>>,
    \* x = 7
    \* p = (x for x in [1, 2, 3])
    \* for y in p:
    \*     break
    \* return x
    <<Assign(Name("x"), Num(7)), Assign(Name("p"), GeneratorExp(Name("x"), <<comprehension(Name("x"), List(<<Num(1), Num(2), Num(3)>>), <<>>)>>)), For(Name("y"), Name("p"), <<Break>>, <<>>), Return(Name("x"))>>,
    \* p = (x for x in [1])
    \* for f in p:
    \*     break
    <<Assign(Name("p"), GeneratorExp(Name("x"), <<comprehension(Name("x"), List(<<Num(1)>>), <<>>)>>)), For(Name("f"), Name("p"), <<Break>>, <<>>)>>,
    \* p = (x for x in [1, z])
    \* for y in p:
    \*     pass
    <<Assign(Name("p"), GeneratorExp(Name("x"), <<comprehension(Name("x"), List(<<Num(1), Name("z")>>), <<>>)>>)), For(Name("y"), Name("p"), <<Pass>>, <<>>)>>
>>

(***************************************************************************)
(* The interpreter under its host.                                         *)
(***************************************************************************)
Init ==
    /\ self = [_num_stmts |-> 0, _loops |-> 0, _depth |-> 1, _names |-> 1, _expr |-> 0, nodes_Name |-> 0]
    /\ ctl = CtlIdle
    /\ stk = <<>>
    /\ envs = <<EmptyNames>>
    /\ evallers = <<>>
    /\ it_pos = 0
    /\ result = [k |-> "none", v |-> NoneV, e |-> NoExc]
    /\ runs = 0
    /\ ev = NoEv
    /\ hist = [handled |-> 0, iters |-> 0, kinds |-> {}]
    /\ box = NoneV
    /\ opst = NoneV
    /\ heap = NoneV
    /\ scope = NoneV

\* DraconicInterpreter.execute
execute(expr) ==
    /\ ctl.m = "idle"
    /\ runs < MaxRuns
    /\ Becomes(_exec(Push(_preflight(parse(Cur, runs + 1)), [k |-> "top", entry |-> "execute"]), expr))

\* DraconicInterpreter.eval: only the first statement is evaluated
eval(expr) ==
    /\ ctl.m = "idle"
    /\ runs < MaxRuns
    /\ Becomes(Go(Push(_preflight(parse(Cur, runs + 1)), [k |-> "top", entry |-> "eval"]), expr[1]))

Visit ==
    /\ ctl.m = "eval"
    /\ refcount(_eval(Fresh(Cur), ctl.node))

Resume ==
    /\ ctl.m = "val"
    /\ refcount(resume(Fresh(Cur), Top(Cur), ctl.v))

Unwind ==
    /\ ctl.m = "exc"
    /\ refcount(unwind(Fresh(Cur), Top(Cur), ctl.e))

Iterate ==
    /\ ctl.m = "iter"
    /\ refcount(next(Fresh(Cur), Top(Cur)))

\* A host keeps one interpreter for MaxRuns runs: the last run is any script or expression,
\* the runs before it are scripts of Setups
Next ==
    \/ \E j \in 1..Len(Setups) : runs + 1 < MaxRuns /\ execute(Setups[j])
    \/ \E j \in 1..Len(Scripts) : runs + 1 = MaxRuns /\ execute(Scripts[j])
    \/ \E j \in 1..Len(Exprs) : runs + 1 = MaxRuns /\ eval(Exprs[j])
    \/ Visit
    \/ Resume
    \/ Unwind
    \/ Iterate

Spec == Init /\ [][Next]_vars

\* the evaluator, once started, takes its next step: a run is one call of the host's thread
FairSpec == Spec /\ WF_vars(Visit \/ Resume \/ Unwind \/ Iterate)

(***************************************************************************)
(* The safe containers (types.py), each method on its own object.  box is  *)
(* the container a script holds, the last call on it, how the call ended   *)
(* ("ok" or the class it raised) and whether the call left it as it was.   *)
(***************************************************************************)
MaxItems == 3

\* what a script can put into a container: an int and string constants
Elems == {IntV(1), StrV(<<"a", "b">>), StrV(<<"a", "b", "c", "d", "e", "f">>),
          StrV(<<"g", "h", "i", "j", "k", "l">>)}
Keys == {IntV(1), IntV(2)}

Done(c) == [c |-> c, out |-> "ok"]
Raises(c, cls) == [c |-> c, out |-> cls]

RemoveAt(l, j) == SubSeq(l, 1, j - 1) \o SubSeq(l, j + 1, Len(l))
InsertAt(l, j, x) == SubSeq(l, 1, j - 1) \o <<x>> \o SubSeq(l, j, Len(l))
IndexOf(l, x) == CHOOSE j \in 1..Len(l) : l[j] = x /\ \A h \in 1..(j - 1) : l[h] # x

SafeList_append(c, obj) ==
    IF approx_len_of(c) + 1 > max_const_len THEN Raises(c, "IterableTooLong")
    ELSE Done([c EXCEPT !.l = Append(@, obj), !.alen = @ + 1])

SafeList_extend(c, iterable) ==
    LET other_len == approx_len_of(iterable) IN
    IF approx_len_of(c) + other_len > max_const_len THEN Raises(c, "IterableTooLong")
    ELSE Done([c EXCEPT !.l = @ \o Items(iterable), !.alen = @ + other_len])

\* pop(i) with i counted from 0; the default is the last item
SafeList_pop(c, i) ==
    IF i + 1 \notin 1..Len(c.l) THEN Raises(c, "IndexError")
    ELSE Done([c EXCEPT !.l = RemoveAt(@, i + 1), !.alen = @ - 1])

SafeList_remove(c, item) ==
    IF ~InSeq(item, c.l) THEN Raises(c, "ValueError")
    ELSE Done([c EXCEPT !.l = RemoveAt(@, IndexOf(@, item)), !.alen = @ - 1])

SafeList_clear(c) == Done([c EXCEPT !.l = <<>>, !.alen = 0])

\* insert and item assignment are UserList's own: the cached length is left as it is
UserList_insert(c, i, item) == Done([c EXCEPT !.l = InsertAt(@, i + 1, item)])

UserList__setitem__(c, i, item) ==
    IF i + 1 \notin 1..Len(c.l) THEN Raises(c, "IndexError")
    ELSE Done([c EXCEPT !.l[i + 1] = item])

\* SafeDict(items): the constructor walks the (key, value) pairs
SafeDict(items) ==
    [k |-> "dict", l |-> items,
     alen |-> approx_walk(items, <<[k |-> "dict", l |-> items, alen |-> 0]>>, Len(items)).size]

HasKey(c, key) == \E j \in 1..Len(c.l) : c.l[j].l[1] = key
KeyAt(c, key) == CHOOSE j \in 1..Len(c.l) : c.l[j].l[1] = key
\* dict.__setitem__ and dict.__delitem__ on the pairs
DictSet(items, key, value) ==
    IF \E j \in 1..Len(items) : items[j].l[1] = key
    THEN [j \in 1..Len(items) |-> IF items[j].l[1] = key THEN TupleV(<<key, value>>) ELSE items[j]]
    ELSE Append(items, TupleV(<<key, value>>))
RECURSIVE DictUpdate(_, _)
DictUpdate(items, other) ==
    IF other = <<>> THEN items
    ELSE DictUpdate(DictSet(items, Head(other).l[1], Head(other).l[2]), Tail(other))

SafeDict__setitem__(c, key, value) ==
    LET other_len == approx_len_of(value) IN
    IF approx_len_of(c) + other_len > max_const_len THEN Raises(c, "IterableTooLong")
    ELSE Done([c EXCEPT !.alen = @ + other_len, !.l = DictSet(@, key, value)])

SafeDict_update(c, other_dict) ==
    LET other_lens == approx_len_of(other_dict) + 0 IN
    IF approx_len_of(c) + other_lens > max_const_len THEN Raises(c, "IterableTooLong")
    ELSE Done([c EXCEPT !.l = DictUpdate(@, other_dict.l), !.alen = @ + other_lens])

\* pop(k): without a default the cached length goes down, with one it stays
SafeDict_pop(c, key, has_default) ==
    IF has_default
    THEN Done(IF HasKey(c, key) THEN [c EXCEPT !.l = RemoveAt(@, KeyAt(c, key))] ELSE c)
    ELSE IF ~HasKey(c, key) THEN Raises(c, "KeyError")
    ELSE Done([c EXCEPT !.l = RemoveAt(@, KeyAt(c, key)), !.alen = @ - 1])

SafeDict__delitem__(c, key) ==
    IF ~HasKey(c, key) THEN Raises(c, "KeyError")
    ELSE Done([c EXCEPT !.l = RemoveAt(@, KeyAt(c, key)), !.alen = @ - 1])

\* setdefault and clear are dict's own
dict_setdefault(c, key, value) ==
    Done(IF HasKey(c, key) THEN c ELSE [c EXCEPT !.l = Append(@, TupleV(<<key, value>>))])
dict_clear(c) == Done([c EXCEPT !.l = <<>>])

\* one call on the container the script holds; a container stays within MaxItems items
\* and its cached length above -MaxItems
Method(op, r) ==
    /\ Len(r.c.l) <= MaxItems
    /\ r.c.alen >= -MaxItems
    /\ box' = [c |-> r.c, same |-> r.c = box.c, op |-> op, out |-> r.out]
    /\ UNCHANGED <<self, ctl, stk, envs, evallers, it_pos, result, runs, ev, hist, opst, heap, scope>>

\* a new object takes the place of the one the script held
Rebind(op, c) ==
    /\ Len(c.l) <= MaxItems
    /\ c.alen >= -MaxItems
    /\ box' = [c |-> c, same |-> FALSE, op |-> op, out |-> "ok"]
    /\ UNCHANGED <<self, ctl, stk, envs, evallers, it_pos, result, runs, ev, hist, opst, heap, scope>>

\* x = [] and x = [e] (_eval_list), x = list(x)
list_literal == \E data \in {<<>>} \cup {<<e>> : e \in Elems} : Rebind("list", SafeList(data))
list_copy == box.c.k = "list" /\ Rebind("list", SafeList(box.c.l))
\* x = x * n: the operator table's multiplication
list_mult ==
    /\ box.c.k = "list"
    /\ \E n \in -1..2 :
        LET r == _safe_mult(box.c, IntV(n)) IN
        IF r.cls = "" THEN Rebind("mult", r.v)
        ELSE Method("mult", Raises(box.c, r.cls))

list_append == box.c.k = "list" /\ \E obj \in Elems : Method("append", SafeList_append(box.c, obj))
list_extend ==
    /\ box.c.k = "list"
    /\ \E iterable \in {SafeList(<<e>>) : e \in Elems} \cup {StrV(<<"a", "b">>), box.c} :
        Method("extend", SafeList_extend(box.c, iterable))
list_insert ==
    /\ box.c.k = "list"
    /\ \E i \in 0..Len(box.c.l), item \in Elems : Method("insert", UserList_insert(box.c, i, item))
list_setitem ==
    /\ box.c.k = "list"
    /\ \E i \in 0..Len(box.c.l), item \in Elems : Method("setitem", UserList__setitem__(box.c, i, item))
list_pop == box.c.k = "list" /\ \E i \in {0, Len(box.c.l) - 1} : Method("pop", SafeList_pop(box.c, i))
list_remove == box.c.k = "list" /\ \E item \in Elems : Method("remove", SafeList_remove(box.c, item))
list_clear == box.c.k = "list" /\ Method("clear", SafeList_clear(box.c))

\* x = {} and x = {key: value} (_eval_dict), x = dict(x)
dict_literal ==
    \E items \in {<<>>} \cup {<<TupleV(<<key, value>>)>> : key \in Keys, value \in Elems} :
        Rebind("dict", SafeDict(items))
dict_copy == box.c.k = "dict" /\ Rebind("dict", SafeDict(box.c.l))
dict_setitem ==
    /\ box.c.k = "dict"
    /\ \E key \in Keys, value \in Elems : Method("setitem", SafeDict__setitem__(box.c, key, value))
dict_update ==
    /\ box.c.k = "dict"
    /\ \E key \in Keys, value \in Elems :
        Method("update", SafeDict_update(box.c, SafeDict(<<TupleV(<<key, value>>)>>)))
dict_pop ==
    /\ box.c.k = "dict"
    /\ \E key \in Keys, has_default \in BOOLEAN : Method("pop", SafeDict_pop(box.c, key, has_default))
dict_delitem == box.c.k = "dict" /\ \E key \in Keys : Method("delete", SafeDict__delitem__(box.c, key))
dict_set_default ==
    /\ box.c.k = "dict"
    /\ \E key \in Keys, value \in Elems : Method("setdefault", dict_setdefault(box.c, key, value))
dict_clear_all == box.c.k = "dict" /\ Method("clear", dict_clear(box.c))

InitTypes ==
    /\ self = [_num_stmts |-> 0, _loops |-> 0, _depth |-> 1, _names |-> 1, _expr |-> 0, nodes_Name |-> 0]
    /\ ctl = CtlIdle
    /\ stk = <<>>
    /\ envs = <<EmptyNames>>
    /\ evallers = <<>>
    /\ it_pos = 0
    /\ result = [k |-> "none", v |-> NoneV, e |-> NoExc]
    /\ runs = 0
    /\ ev = NoEv
    /\ hist = [handled |-> 0, iters |-> 0, kinds |-> {}]
    /\ box = [c |-> SafeList(<<>>), same |-> FALSE, op |-> "list", out |-> "ok"]
    /\ opst = NoneV
    /\ heap = NoneV
    /\ scope = NoneV

NextTypes ==
    \/ list_literal
    \/ list_copy
    \/ list_mult
    \/ list_append
    \/ list_extend
    \/ list_insert
    \/ list_setitem
    \/ list_pop
    \/ list_remove
    \/ list_clear
    \/ dict_literal
    \/ dict_copy
    \/ dict_setitem
    \/ dict_update
    \/ dict_pop
    \/ dict_delitem
    \/ dict_set_default
    \/ dict_clear_all

SpecTypes == InitTypes /\ [][NextTypes]_vars

(***************************************************************************)
(* The operator table on integers: a op b for two integer constants, as    *)
(* _eval_binop applies it.  opst is the last operation and its outcome.    *)
(***************************************************************************)
MaxOperand == 9
Operands == {IntV(n) : n \in -MaxOperand..MaxOperand}

Applied(op, a, b) ==
    /\ opst' = [op |-> op, a |-> a, b |-> b, r |-> operators(op, a, b)]
    /\ UNCHANGED <<self, ctl, stk, envs, evallers, it_pos, result, runs, ev, hist, box, heap, scope>>

int_add == \E a \in Operands, b \in Operands : Applied("Add", a, b)
int_sub == \E a \in Operands, b \in Operands : Applied("Sub", a, b)
int_mult == \E a \in Operands, b \in Operands : Applied("Mult", a, b)
int_pow == \E a \in Operands, b \in Operands : Applied("Pow", a, b)
int_lshift == \E a \in Operands, b \in Operands : Applied("LShift", a, b)

InitOps ==
    /\ self = [_num_stmts |-> 0, _loops |-> 0, _depth |-> 1, _names |-> 1, _expr |-> 0, nodes_Name |-> 0]
    /\ ctl = CtlIdle
    /\ stk = <<>>
    /\ envs = <<EmptyNames>>
    /\ evallers = <<>>
    /\ it_pos = 0
    /\ result = [k |-> "none", v |-> NoneV, e |-> NoExc]
    /\ runs = 0
    /\ ev = NoEv
    /\ hist = [handled |-> 0, iters |-> 0, kinds |-> {}]
    /\ box = NoneV
    /\ opst = [op |-> "", a |-> NoneV, b |-> NoneV, r |-> OpOk(NoneV)]
    /\ heap = NoneV
    /\ scope = NoneV

NextOps ==
    \/ int_add
    \/ int_sub
    \/ int_mult
    \/ int_pow
    \/ int_lshift

SpecOps == InitOps /\ [][NextOps]_vars

(***************************************************************************)
(* Containers by reference.  heap is the store of the list, dict and set   *)
(* objects: the host's native ones come first, the safe ones the script    *)
(* made follow.  A value is an integer or a reference into the store.  The *)
(* data of a list or set is the sequence of its values, that of a dict the *)
(* sequence of its items.  Each action is one statement of a script; what  *)
(* nothing refers to after the statement is collected.                     *)
(***************************************************************************)
MaxObjs == 5
MaxData == 2

Ref(i) == [k |-> "ref", id |-> i]
Subscript(v, s) == [t |-> "Subscript", value |-> v, slice |-> s]

\* the host's builtins: rl = [1, inner], rd = {1: 1, 2: inner}, rs = {1}, with inner = [2]
HostObjs == <<
    [native |-> TRUE, ty |-> "list", data |-> <<IntV(1), Ref(2)>>],
    [native |-> TRUE, ty |-> "list", data |-> <<IntV(2)>>],
    [native |-> TRUE, ty |-> "dict", data |-> <<[key |-> 1, val |-> IntV(1)], [key |-> 2, val |-> Ref(2)]>>],
    [native |-> TRUE, ty |-> "set", data |-> <<IntV(1)>> ] >>
HostIds == {"rl", "rd", "rs"}
RefIds == {"x", "y"}

\* the last statement that ended without an error, as history: its kind, the name it
\* binds, the name it reads when it reads a plain name of the script, its key, and the
\* native container the evaluator was handed last (if any); cls is the class a statement
\* raised
NoHeapOp == [t |-> "", target |-> "", via |-> "", key |-> 0, raw |-> NoneV, cls |-> ""]

values_of(o) == IF o.ty = "dict" THEN [j \in 1..Len(o.data) |-> o.data[j].val] ELSE o.data

HeapOk(h, v, raw) == [h |-> h, v |-> v, raw |-> raw, cls |-> ""]
HeapFail(h, cls) == [h |-> h, v |-> NoneV, raw |-> NoneV, cls |-> cls]

IsNative(h, v) == v.k = "ref" /\ h.objs[v.id].native

\* DraconicInterpreter._eval once the node's handler gave val: a native list, dict or set
\* is handed on as a new safe container with the same items; raw is val itself
rewrapMut(h, val) == HeapOk(h, val, val)
rewrap(h, val) ==
    IF IsNative(h, val)
    THEN HeapOk([h EXCEPT !.objs = Append(@, [h.objs[val.id] EXCEPT !.native = FALSE])],
                Ref(Len(h.objs) + 1), val)
    ELSE HeapOk(h, val, val)

\* container[key]
obj_getitem(o, key) ==
    CASE o.ty = "list" -> IF key \in 0..(Len(o.data) - 1) THEN OpOk(o.data[key + 1]) ELSE OpFail("IndexError")
      [] o.ty = "dict" ->
            IF \E j \in 1..Len(o.data) : o.data[j].key = key
            THEN OpOk(o.data[CHOOSE j \in 1..Len(o.data) : o.data[j].key = key].val)
            ELSE OpFail("KeyError")
      [] OTHER -> OpFail("TypeError")

\* container[key] = value, on the object o: the object afterwards, or the class raised
obj_setitem(o, key, value) ==
    CASE o.ty = "list" ->
            IF key \in 0..(Len(o.data) - 1) THEN [cls |-> "", o |-> [o EXCEPT !.data[key + 1] = value]]
            ELSE [cls |-> "IndexError", o |-> o]
      [] o.ty = "dict" ->
            IF \E j \in 1..Len(o.data) : o.data[j].key = key
            THEN [cls |-> "", o |-> [o EXCEPT !.data[CHOOSE j \in 1..Len(o.data) : o.data[j].key = key].val = value]]
            ELSE [cls |-> "", o |-> [o EXCEPT !.data = Append(@, [key |-> key, val |-> value])]]
      [] OTHER -> [cls |-> "TypeError", o |-> o]

\* the handlers of Name, Constant, Subscript and List on the store, each result passing
\* through the end of _eval
RECURSIVE heap_eval(_, _)
heap_eval(h, node) ==
    CASE node.t = "Constant" -> HeapOk(h, node.c, node.c)
      [] node.t = "Name" ->
            LET val == IF Lookup(h.names, node.id) # Undef THEN h.names[node.id]
                       ELSE Lookup(h.builtins, node.id) IN
            IF val = Undef THEN HeapFail(h, "NotDefined") ELSE rewrap(h, val)
      [] node.t = "Subscript" ->
            LET c == heap_eval(h, node.value) IN
            IF c.cls # "" THEN c
            ELSE IF c.v.k # "ref" THEN HeapFail(c.h, "TypeError")
            ELSE LET r == obj_getitem(c.h.objs[c.v.id], node.slice.c.i) IN
                 IF r.cls # "" THEN HeapFail(c.h, r.cls) ELSE rewrap(c.h, r.v)
      [] node.t = "List" ->
            IF node.elts = <<>>
            THEN HeapOk([h EXCEPT !.objs = Append(@, [native |-> FALSE, ty |-> "list", data |-> <<>>])],
                        Ref(Len(h.objs) + 1), NoneV)
            ELSE LET c == heap_eval(h, node.elts[1]) IN
                 IF c.cls # "" THEN c
                 ELSE HeapOk([c.h EXCEPT !.objs = Append(@, [native |-> FALSE, ty |-> "list", data |-> <<c.v>>])],
                             Ref(Len(c.h.objs) + 1), NoneV)

\* the objects that can be reached from the names
refs_of(o) == {values_of(o)[j].id : j \in {i \in 1..Len(o.data) : values_of(o)[i].k = "ref"}}
RECURSIVE reach(_, _)
reach(objs, S) ==
    LET T == S \cup UNION {refs_of(objs[i]) : i \in S} IN IF T = S THEN S ELSE reach(objs, T)
named(d) == {d[n].id : n \in {m \in DOMAIN d : d[m].k = "ref"}}

\* the end of a statement: the objects nothing refers to are gone, the others close ranks
collect(h) ==
    LET live == reach(h.objs, named(h.builtins) \cup named(h.names))
        rank(i) == Cardinality({j \in live : j <= i})
        ren(v) == IF v.k # "ref" THEN v ELSE IF v.id \in live THEN Ref(rank(v.id)) ELSE NoneV
        renobj(o) == [o EXCEPT !.data = IF o.ty = "dict"
                                        THEN [j \in 1..Len(o.data) |-> [o.data[j] EXCEPT !.val = ren(@)]]
                                        ELSE [j \in 1..Len(o.data) |-> ren(o.data[j])]] IN
    [objs |-> [n \in 1..Cardinality(live) |-> renobj(h.objs[CHOOSE i \in live : rank(i) = n])],
     builtins |-> [n \in DOMAIN h.builtins |-> ren(h.builtins[n])],
     names |-> [n \in DOMAIN h.names |-> ren(h.names[n])],
     op |-> [h.op EXCEPT !.raw = ren(@)]]

\* a statement ran on the store
Stored(h, t, target, e, key, raw, cls) ==
    /\ \E after \in {collect([h EXCEPT !.op =
                                  IF cls # "" THEN [NoHeapOp EXCEPT !.cls = cls]
                                  ELSE [t |-> t, target |-> target, key |-> key, cls |-> cls,
                                        via |-> IF e.t = "Name" /\ e.id \in RefIds THEN e.id ELSE "",
                                        raw |-> IF IsNative(h, raw) THEN raw ELSE NoneV]])} :
            Len(after.objs) <= MaxObjs /\ heap' = after
    /\ UNCHANGED <<self, ctl, stk, envs, evallers, it_pos, result, runs, ev, hist, box, opst, scope>>

\* the expressions a statement reads: a name, or an item of what a name gives
Reads ==
    LET ns == {Name(n) : n \in HostIds \cup RefIds} IN
    ns \cup {Subscript(n, Num(k)) : n \in ns, k \in 1..2}

\* x = e (_eval_assign, _assign_name)
ref_assign ==
    \E x \in RefIds : \E e \in Reads \cup {List(<<>>), List(<<Num(9)>>)} :
        LET r == heap_eval(heap, e) IN
        Stored(IF r.cls = "" THEN [r.h EXCEPT !.names[x] = r.v] ELSE r.h, "assign", x, e, 0, r.raw, r.cls)

\* e[key] = value (_eval_assign, _assign_subscript): the value, then the container
ref_setitem ==
    \E e \in Reads : \E key \in {0, 2} : \E value \in {Num(9)} :
        LET v == heap_eval(heap, value)
            c == heap_eval(v.h, e) IN
        IF v.cls # "" THEN Stored(v.h, "setitem", "", e, key, NoneV, v.cls)
        ELSE IF c.cls # "" THEN Stored(c.h, "setitem", "", e, key, NoneV, c.cls)
        ELSE IF c.v.k # "ref" THEN Stored(c.h, "setitem", "", e, key, c.raw, "TypeError")
        ELSE LET s == obj_setitem(c.h.objs[c.v.id], key, v.v) IN
             Stored([c.h EXCEPT !.objs[c.v.id] = s.o], "setitem", "", e, key, c.raw, s.cls)

\* e.append(9) and e.clear() (_eval_call, _eval_attribute): the method of what e gives
ref_method ==
    \E e \in Reads : \E name \in {"append", "clear"} :
        LET c == heap_eval(heap, e) IN
        IF c.cls # "" THEN Stored(c.h, name, "", e, 0, NoneV, c.cls)
        ELSE IF c.v.k # "ref" \/ (name = "append" /\ c.h.objs[c.v.id].ty # "list")
        THEN Stored(c.h, name, "", e, 0, c.raw, "NotDefined")
        ELSE IF name = "append"
        THEN /\ Len(c.h.objs[c.v.id].data) < MaxData
             /\ Stored([c.h EXCEPT !.objs[c.v.id].data = Append(@, IntV(9))], name, "", e, 0, c.raw, "")
        ELSE Stored([c.h EXCEPT !.objs[c.v.id].data = <<>>], name, "", e, 0, c.raw, "")

\* for x in e: pass (_exec_for): each item is bound as the iterator gives it, the last stays
ref_for ==
    \E x \in RefIds : \E e \in Reads :
        LET c == heap_eval(heap, e) IN
        IF c.cls # "" THEN Stored(c.h, "for", x, e, 0, NoneV, c.cls)
        ELSE IF c.v.k # "ref" THEN Stored(c.h, "for", x, e, 0, c.raw, "TypeError")
        ELSE LET o == c.h.objs[c.v.id]
                 items == IF o.ty = "dict" THEN [j \in 1..Len(o.data) |-> IntV(o.data[j].key)] ELSE o.data IN
             Stored(IF items = <<>> THEN c.h ELSE [c.h EXCEPT !.names[x] = items[Len(items)]], "for", x, e, 0, c.raw, "")

InitRefs ==
    /\ self = [_num_stmts |-> 0, _loops |-> 0, _depth |-> 1, _names |-> 1, _expr |-> 0, nodes_Name |-> 0]
    /\ ctl = CtlIdle
    /\ stk = <<>>
    /\ envs = <<EmptyNames>>
    /\ evallers = <<>>
    /\ it_pos = 0
    /\ result = [k |-> "none", v |-> NoneV, e |-> NoExc]
    /\ runs = 0
    /\ ev = NoEv
    /\ hist = [handled |-> 0, iters |-> 0, kinds |-> {}]
    /\ box = NoneV
    /\ opst = NoneV
    /\ heap = [objs |-> HostObjs,
               builtins |-> [n \in HostIds |-> CASE n = "rl" -> Ref(1) [] n = "rd" -> Ref(3) [] OTHER -> Ref(4)],
               names |-> [n \in RefIds |-> Undef],
               op |-> NoHeapOp]
    /\ scope = NoneV

NextRefs ==
    \/ ref_assign
    \/ ref_setitem
    \/ ref_method
    \/ ref_for

SpecRefs == InitRefs /\ [][NextRefs]_vars

(***************************************************************************)
(* Unpacking assignment (_eval_assign, _assign, _assign_unpack).           *)
(* scope.names is the names dict, scope.n the number of statements run,    *)
(* scope.op the last statement "names = values" with its outcome: the      *)
(* error it raised and the bindings it made, in order.                     *)
(***************************************************************************)
MaxValues == 4
MaxStmts == 2
ScopeIds == {"a", "b", "c", "d"}
EmptyScope == [n \in ScopeIds |-> Undef]

\* a plain list, as list(...) and slices of one give it
PyList(l) == [k |-> "pylist", l |-> l]

\* the outcome of binding: the names, the error (cls = "" for none) with the two counts
\* its message names (expected, got), and the bindings made
Binding(names) == [names |-> names, cls |-> "", msg |-> <<>>, bound |-> <<>>]
Fails(sc, cls, msg) == [sc EXCEPT !.cls = cls, !.msg = msg]

\* b[lo:hi] and len(b) for a sequence value: a slice has the class of b
slice(b, lo, hi) ==
    CASE b.k = "tuple" -> TupleV(SubSeq(b.l, lo + 1, hi))
      [] b.k = "list" -> SafeList(SubSeq(b.l, lo + 1, hi))
      [] OTHER -> PyList(SubSeq(b.l, lo + 1, hi))

\* zip_star(a, b, star_index): a[star_index] goes with the slice of b that the other
\* elements of a leave over, every other element of a with one item of b
zip_star(a, b, star_index) ==
    LET length_difference == Len(b.l) - (Len(a) - 1) IN
    [j \in 1..Len(a) |->
        IF j < star_index + 1 THEN <<a[j], b.l[j]>>
        ELSE IF j = star_index + 1 THEN <<a[j], slice(b, star_index, star_index + length_difference)>>
        ELSE <<a[j], b.l[j + length_difference - 1]>>]

\* zip(a, b)
zip(a, b) == [j \in 1..(IF Len(a) < Len(b) THEN Len(a) ELSE Len(b)) |-> <<a[j], b[j]>>]

\* _assign_name on a names dict
assign_name(sc, name, value) ==
    IF name.id \in BuiltinIds THEN Fails(sc, "DraconicValueError", <<>>)
    ELSE [sc EXCEPT !.names[name.id] = value, !.bound = Append(@, <<name.id, value>>)]

\* the test of _assign_unpack with one starred target: too few values
not_enoughMut(elts, values) == Len(values) < Len(elts)
not_enough(elts, values) == Len(values) < Len(elts) - 1

\* the indices of the starred targets (or starred sub-patterns), in order
RECURSIVE stars(_, _)
stars(elts, j) ==
    IF j > Len(elts) THEN <<>>
    ELSE (IF elts[j].t \in {"Starred", "MatchStar"} THEN <<j>> ELSE <<>>) \o stars(elts, j + 1)

RECURSIVE _assign_unpack(_, _, _)
RECURSIVE assign_each(_, _)

\* _assign: the handler of the target's class; _assign_starred assigns the name it holds
_assign(sc, names, values) ==
    CASE names.t = "Name" -> assign_name(sc, names, values)
      [] names.t \in {"Tuple", "List"} -> _assign_unpack(sc, names, values)
      [] names.t = "Starred" -> assign_name(sc, names.value, values)
      [] OTHER -> Fails(sc, "FeatureNotAvailable", <<>>)

\* for t, v in pairs: self._assign_unpack(t, v), up to the first error
assign_each(sc, pairs) ==
    IF pairs = <<>> \/ sc.cls # "" THEN sc
    ELSE assign_each(_assign_unpack(sc, pairs[1][1], pairs[1][2]), Tail(pairs))

_assign_unpack(sc, names, values) ==
    IF names.t \notin {"Tuple", "List"} THEN _assign(sc, names, values)
    ELSE IF ~(values.k = "pylist" \/ Iterable(values)) THEN Fails(sc, "DraconicValueError", <<>>)
    ELSE LET vals == IF values.k = "pylist" THEN values.l ELSE Items(values)
             k == Len(names.elts)
             starred == stars(names.elts, 1) IN
         IF starred = <<>>
         THEN IF k > Len(vals) THEN Fails(sc, "DraconicValueError", <<k, Len(vals)>>)
              ELSE IF k < Len(vals) THEN Fails(sc, "DraconicValueError", <<k, Len(vals)>>)
              ELSE assign_each(sc, zip(names.elts, vals))
         ELSE IF Len(starred) > 1 THEN Fails(sc, "DraconicSyntaxError", <<>>)
         ELSE IF not_enough(names.elts, vals)
              THEN Fails(sc, "DraconicValueError", <<k - 1, Len(vals)>>)
              ELSE assign_each(sc, zip_star(names.elts, PyList(vals), starred[1] - 1))

\* the targets: a, b and the starred *c at every place among up to three, twice the same
\* name, two starred ones, a builtin's name, a nested target, an attribute, and a plain name
StarredC == Starred(Name("c"))
UnpackTargets ==
    {Tuple(<<Name("a")>>), Tuple(<<StarredC>>), Tuple(<<Name("a"), Name("b")>>),
     Tuple(<<Name("b"), Name("a")>>), Tuple(<<Name("a"), StarredC>>), Tuple(<<StarredC, Name("a")>>),
     Tuple(<<StarredC, StarredC>>), Tuple(<<Name("a"), Name("b"), StarredC>>),
     Tuple(<<Name("a"), StarredC, Name("b")>>), Tuple(<<StarredC, Name("a"), Name("b")>>),
     Tuple(<<Name("a"), Name("b"), Name("a")>>), List(<<Name("a"), StarredC, StarredC>>),
     Name("a"), Tuple(<<Name("a"), Name("load")>>), Tuple(<<Name("load"), StarredC>>),
     List(<<Tuple(<<Name("a"), Name("b")>>), StarredC>>), Tuple(<<Name("a"), Attribute(Name("b"), <<"x">>)>>)}

\* the values: the tuples and lists (1, ..., n), a string, a tuple that holds a tuple, and
\* an integer
Upto(n) == [j \in 1..n |-> IntV(j)]
UnpackValues ==
    {TupleV(Upto(n)) : n \in 0..MaxValues} \cup {SafeList(Upto(2)), StrV(<<"a", "b">>), IntV(7),
     TupleV(<<TupleV(Upto(2)), IntV(3)>>)}

\* names = values (_eval_assign with one target)
unpack ==
    /\ scope.n < MaxStmts
    /\ \E names \in UnpackTargets, values \in UnpackValues :
          \E sc \in {_assign(Binding(scope.names), names, values)} :
              scope' = [names |-> sc.names, n |-> scope.n + 1,
                        op |-> [t |-> "unpack", names |-> names, values |-> values,
                                cls |-> sc.cls, msg |-> sc.msg, bound |-> sc.bound]]
    /\ UNCHANGED <<self, ctl, stk, envs, evallers, it_pos, result, runs, ev, hist, box, opst, heap>>

NoScopeOp == [t |-> "none"]

InitUnpack ==
    /\ self = [_num_stmts |-> 0, _loops |-> 0, _depth |-> 1, _names |-> 1, _expr |-> 0, nodes_Name |-> 0]
    /\ ctl = CtlIdle
    /\ stk = <<>>
    /\ envs = <<EmptyNames>>
    /\ evallers = <<>>
    /\ it_pos = 0
    /\ result = [k |-> "none", v |-> NoneV, e |-> NoExc]
    /\ runs = 0
    /\ ev = NoEv
    /\ hist = [handled |-> 0, iters |-> 0, kinds |-> {}]
    /\ box = NoneV
    /\ opst = NoneV
    /\ heap = NoneV
    /\ scope = [names |-> EmptyScope, n |-> 0, op |-> NoScopeOp]

NextUnpack == unpack

SpecUnpack == InitUnpack /\ [][NextUnpack]_vars

(***************************************************************************)
(* Patterns on values (_exec_match, _patma and the handlers of             *)
(* patma_nodes, without the mapping pattern).  The bindings of a pattern   *)
(* are a dict from names to values; scope.op is the last match statement   *)
(* with, for every case that was tried, what its pattern gave, and the     *)
(* case whose body ran.  A body here is "pass".                            *)
(***************************************************************************)
MaxMatches == 1

MatchStar(name) == [t |-> "MatchStar", name |-> name]
MatchSequence(patterns) == [t |-> "MatchSequence", patterns |-> patterns]
MatchOr(patterns) == [t |-> "MatchOr", patterns |-> patterns]

\* what _patma gives: a dict of bindings, None, or an error; visits is self._num_stmts
Matched(b, visits) == [r |-> "match", b |-> b, cls |-> "", visits |-> visits]
NoMatch(visits) == [r |-> "none", b |-> EmptyScope, cls |-> "", visits |-> visits]
MatchRaises(cls, visits) == [r |-> "raise", b |-> EmptyScope, cls |-> cls, visits |-> visits]

\* the keys of a dict, and dict.update
keys(d) == {x \in DOMAIN d : d[x] # Undef}
update_with(d, m) == [x \in DOMAIN d |-> IF m[x] # Undef THEN m[x] ELSE d[x]]

\* isinstance(subject, Sequence) and not isinstance(subject, (str, bytes))
IsSequence(subject) == subject.k \in {"list", "tuple", "pylist"}

\* the duplicate bindings check of _patma_match_sequence
duplicateMut(bound, match) == FALSE
duplicate(bound, match) == bound \cap keys(match) # {}

RECURSIVE patma(_, _, _)
RECURSIVE match_each(_, _, _, _)
RECURSIVE match_or(_, _, _)

\* the loop of _patma_match_sequence over the pairs (pattern, item)
match_each(pairs, bindings, bound, visits) ==
    IF pairs = <<>> THEN Matched(bindings, visits)
    ELSE LET match == patma(pairs[1][1], pairs[1][2], visits) IN
         IF match.r # "match" THEN match
         ELSE IF duplicate(bound, match.b) THEN MatchRaises("DraconicValueError", match.visits)
         ELSE match_each(Tail(pairs), update_with(bindings, match.b), bound \cup keys(match.b),
                         match.visits)

_patma_match_sequence(node, subject, visits) ==
    IF ~IsSequence(subject) THEN NoMatch(visits)
    ELSE LET match_star_idxs == stars(node.patterns, 1) IN
         IF Len(match_star_idxs) > 1 THEN MatchRaises("DraconicValueError", visits)
         ELSE IF match_star_idxs # <<>>
         THEN IF ~(Len(node.patterns) <= Len(subject.l) + 1) THEN NoMatch(visits)
              ELSE match_each(zip_star(node.patterns, subject, match_star_idxs[1] - 1), EmptyScope, {}, visits)
         ELSE IF Len(node.patterns) # Len(subject.l) THEN NoMatch(visits)
              ELSE match_each(zip(node.patterns, subject.l), EmptyScope, {}, visits)

\* the value of a MatchValue pattern is a constant: evaluating it visits one node
_patma_match_value(node, subject, visits) ==
    IF subject = node.value.c THEN Matched(EmptyScope, visits + 1) ELSE NoMatch(visits + 1)

_patma_match_star(node, subject, visits) ==
    IF node.name = "" THEN Matched(EmptyScope, visits)
    ELSE Matched([EmptyScope EXCEPT ![node.name] = subject], visits)

_patma_match_as(node, subject, visits) ==
    IF node.name = "" THEN Matched(EmptyScope, visits)
    ELSE IF node.pattern = Absent THEN Matched([EmptyScope EXCEPT ![node.name] = subject], visits)
    ELSE LET inner_match == patma(node.pattern, subject, visits) IN
         IF inner_match.r # "match" THEN inner_match
         ELSE Matched([inner_match.b EXCEPT ![node.name] = subject], inner_match.visits)

\* the loop of _patma_match_or
match_or(patterns, subject, visits) ==
    IF patterns = <<>> THEN NoMatch(visits)
    ELSE LET match == patma(patterns[1], subject, visits) IN
         IF match.r # "none" THEN match ELSE match_or(Tail(patterns), subject, match.visits)

\* _patma: the handler of the pattern's class, after the statement counter went up
patma(pattern, subject, visits) ==
    CASE pattern.t = "MatchValue" -> _patma_match_value(pattern, subject, visits + 1)
      [] pattern.t = "MatchSequence" -> _patma_match_sequence(pattern, subject, visits + 1)
      [] pattern.t = "MatchStar" -> _patma_match_star(pattern, subject, visits + 1)
      [] pattern.t = "MatchAs" -> _patma_match_as(pattern, subject, visits + 1)
      [] pattern.t = "MatchOr" -> match_or(pattern.patterns, subject, visits + 1)
      [] OTHER -> MatchRaises("FeatureNotAvailable", visits)

\* a guard of these statements is a constant or "name == constant": its value, or the
\* error of a name that is not defined, and the nodes visited
guard_value(names, guard) ==
    IF guard.t = "Constant" THEN [v |-> guard.c, cls |-> "", visits |-> 1]
    ELSE IF names[guard.left.id] = Undef THEN [v |-> NoneV, cls |-> "NotDefined", visits |-> 2]
    ELSE [v |-> BoolV(names[guard.left.id] = guard.comparators[1].c), cls |-> "", visits |-> 3]

\* the state of a match statement: the names, the cases tried so far (what the pattern
\* gave, what the guard gave, the names after the case), the cases whose body ran, the error
MatchState(names) == [names |-> names, tried |-> <<>>, ran |-> <<>>, cls |-> "", visits |-> 1]
Tried(st, ci, bindings, g, names) ==
    [st EXCEPT !.tried = Append(@, [ci |-> ci, r |-> bindings.r, b |-> bindings.b, g |-> g, names |-> names])]

\* return self._exec(match_case.body): the statement is over once a body ran
returnedMut(st) == FALSE
returned(st) == st.ran # <<>>

\* the loop of _exec_match from case ci on
RECURSIVE match_cases(_, _, _, _)
match_cases(st, node, subject, ci) ==
    IF ci > Len(node.cases) \/ returned(st) \/ st.cls # "" THEN st
    ELSE LET match_case_ == node.cases[ci]
             bindings == patma(match_case_.pattern, subject, st.visits)
             names == IF bindings.r = "match" THEN update_with(st.names, bindings.b) ELSE st.names
             s1 == [st EXCEPT !.names = names, !.visits = bindings.visits, !.cls = bindings.cls]
             g == guard_value(names, match_case_.guard)
             s2 == [s1 EXCEPT !.visits = @ + g.visits, !.cls = g.cls] IN
         IF bindings.r # "match" THEN match_cases(Tried(s1, ci, bindings, "", names), node, subject, ci + 1)
         ELSE IF match_case_.guard = Absent
         THEN match_cases(Tried([s1 EXCEPT !.ran = Append(@, ci), !.visits = @ + 1], ci, bindings, "", names),
                          node, subject, ci + 1)
         ELSE IF g.cls # "" THEN Tried(s2, ci, bindings, "raise", names)
         ELSE IF ~Truthy(g.v) THEN match_cases(Tried(s2, ci, bindings, "false", names), node, subject, ci + 1)
         ELSE match_cases(Tried([s2 EXCEPT !.ran = Append(@, ci), !.visits = @ + 1], ci, bindings, "true", names),
                          node, subject, ci + 1)

\* the patterns: sequences with and without a starred name, with a name twice, a capture,
\* the wildcard, a value, alternatives, and a class pattern
Cap(name) == MatchAs(Absent, name)
Seq2(p, q) == MatchSequence(<<p, q>>)
Patterns ==
    {Seq2(MatchValue(Num(1)), Cap("a")), Seq2(Cap("a"), MatchValue(Num(1))), Seq2(Cap("a"), Cap("b")),
     Seq2(Cap("a"), MatchStar("c")), Seq2(MatchStar("c"), Cap("a")), Seq2(MatchStar(""), MatchValue(Num(2))),
     MatchSequence(<<Cap("a"), MatchStar("c"), Cap("b")>>), Seq2(Cap("a"), Cap("a")),
     Seq2(Cap("a"), MatchSequence(<<Cap("a")>>)), Seq2(MatchStar("c"), MatchStar("c")),
     MatchSequence(<<Cap("a"), Cap("a"), MatchValue(Num(9))>>),
     MatchSequence(<<MatchValue(Num(9)), Cap("a"), Cap("a")>>),
     MatchSequence(<<>>), Cap("a"), Cap(""), MatchValue(Num(1)),
     Seq2(MatchOr(<<MatchValue(Num(1)), MatchValue(Num(2))>>), MatchAs(MatchValue(Num(2)), "b")),
     MatchClass}
Guards == {Absent, Constant(BoolV(FALSE)), Compare(Name("a"), "Eq", Num(1))}
Fallbacks == {Cap(""), Cap("a"), Seq2(Cap("b"), MatchStar("c"))}
CaseLists ==
    {<<match_case(p, g, <<Pass>>)>> : p \in Patterns, g \in Guards}
    \cup {<<match_case(p, g, <<Pass>>), match_case(q, Absent, <<Pass>>)>> : p \in Patterns, g \in Guards, q \in Fallbacks}

\* the subjects: lists, tuples, a string and an integer
Subjects ==
    {SafeList(Upto(n)) : n \in 0..3} \cup {TupleV(Upto(2)), SafeList(<<IntV(1), IntV(1)>>), StrV(<<"a", "b">>),
     IntV(1), SafeList(<<IntV(1), SafeList(<<IntV(2)>>)>>)}

\* match subject: cases (_exec_match); the subject is a value
exec_match ==
    /\ scope.n < MaxMatches
    /\ \E subject \in Subjects, cases \in CaseLists :
          \E st \in {match_cases(MatchState(scope.names), Match(Absent, cases), subject, 1)} :
              scope' = [names |-> st.names, n |-> scope.n + 1,
                        op |-> [t |-> "match", cases |-> cases, subject |-> subject, tried |-> st.tried,
                                before |-> scope.names,
                                ran |-> st.ran, cls |-> st.cls, visits |-> st.visits]]
    /\ UNCHANGED <<self, ctl, stk, envs, evallers, it_pos, result, runs, ev, hist, box, opst, heap>>

NextMatch == exec_match

SpecMatch == InitUnpack /\ [][NextMatch]_vars

(***************************************************************************)
(* Binding the arguments of a call (_bind_function_args).  scope.names is  *)
(* the names the function closed over; scope.op is the last call: the      *)
(* parameters, the arguments, the callee's names when binding ended, the   *)
(* bindings made and the defaults evaluated, in order, and the error.      *)
(***************************************************************************)
MaxArgs == 3

\* ast.arguments; vararg and kwarg are "" when absent, a kw_default is Absent when absent
arguments(posonlyargs, args, vararg, kwonlyargs, kw_defaults, kwarg, defaults) ==
    [posonlyargs |-> posonlyargs, args |-> args, vararg |-> vararg, kwonlyargs |-> kwonlyargs,
     kw_defaults |-> kw_defaults, kwarg |-> kwarg, defaults |-> defaults]

\* a plain dict of keyword arguments
PyDict(d) == [k |-> "pydict", d |-> d]

\* self._eval of a default: a constant, or a name looked up in the callee's names
default_value(names, expr) == IF expr.t = "Constant" THEN expr.c ELSE names[expr.id]

\* the state of _bind_function_args: the callee's names, the keyword arguments left, the
\* error, the bindings made and the defaults evaluated
BindState(names, kwargs) == [names |-> names, kwargs |-> kwargs, cls |-> "", bound |-> <<>>, evals |-> <<>>]
bind(st, name, value) == [st EXCEPT !.names[name] = value, !.bound = Append(@, <<name, value>>)]
bind_default(st, name, expr) ==
    LET v == default_value(st.names, expr) IN
    IF v = Undef THEN [st EXCEPT !.cls = "NotDefined", !.evals = Append(@, <<name, v>>)]
    ELSE [bind(st, name, v) EXCEPT !.evals = Append(@, <<name, v>>)]
pop(st, name) == [st EXCEPT !.kwargs[name] = Undef]

\* the test "pos and kw" of the loop over arguments.args
multiple_valuesMut(args_i, args, kwargs, name) == FALSE
multiple_values(args_i, args, kwargs, name) == args_i + 1 <= Len(args) /\ kwargs[name] # Undef

\* for posonly in arguments.posonlyargs, from the j-th on
RECURSIVE bind_posonly(_, _, _, _)
bind_posonly(st, a, args, j) ==
    LET numpos == Len(a.posonlyargs) + Len(a.args)
        args_i == j - 1
        default_i == Len(a.defaults) - numpos + args_i
        posonly == a.posonlyargs[j] IN
    IF j > Len(a.posonlyargs) \/ st.cls # "" THEN st
    ELSE IF args_i + 1 > Len(args)
    THEN IF default_i < 0 THEN [st EXCEPT !.cls = "TypeError"]
         ELSE bind_posonly(bind_default(st, posonly, a.defaults[default_i + 1]), a, args, j + 1)
    ELSE bind_posonly(bind(st, posonly, args[args_i + 1]), a, args, j + 1)

\* for posarg in arguments.args, from the j-th on
RECURSIVE bind_posargs(_, _, _, _)
bind_posargs(st, a, args, j) ==
    LET numpos == Len(a.posonlyargs) + Len(a.args)
        args_i == Len(a.posonlyargs) + j - 1
        default_i == Len(a.defaults) - numpos + args_i
        posarg == a.args[j] IN
    IF j > Len(a.args) \/ st.cls # "" THEN st
    ELSE IF args_i + 1 > Len(args) /\ st.kwargs[posarg] = Undef
    THEN IF default_i < 0 THEN [st EXCEPT !.cls = "TypeError"]
         ELSE bind_posargs(bind_default(st, posarg, a.defaults[default_i + 1]), a, args, j + 1)
    ELSE IF multiple_values(args_i, args, st.kwargs, posarg) THEN [st EXCEPT !.cls = "TypeError"]
    ELSE IF st.kwargs[posarg] # Undef
    THEN bind_posargs(pop(bind(st, posarg, st.kwargs[posarg]), posarg), a, args, j + 1)
    ELSE bind_posargs(bind(st, posarg, args[args_i + 1]), a, args, j + 1)

\* for k_i, kwargonly in enumerate(arguments.kwonlyargs), from the j-th on
RECURSIVE bind_kwonly(_, _, _)
bind_kwonly(st, a, j) ==
    LET kwargonly == a.kwonlyargs[j] IN
    IF j > Len(a.kwonlyargs) \/ st.cls # "" THEN st
    ELSE IF st.kwargs[kwargonly] = Undef /\ a.kw_defaults[j] = Absent THEN [st EXCEPT !.cls = "TypeError"]
    ELSE IF st.kwargs[kwargonly] # Undef
    THEN bind_kwonly(pop(bind(st, kwargonly, st.kwargs[kwargonly]), kwargonly), a, j + 1)
    ELSE bind_kwonly(bind_default(st, kwargonly, a.kw_defaults[j]), a, j + 1)

\* *args: what the positional parameters left over, as a tuple
bind_vararg(st, a, args) ==
    LET numpos == Len(a.posonlyargs) + Len(a.args)
        rest == TupleV(SubSeq(args, numpos + 1, Len(args))) IN
    IF a.vararg = "" \/ st.cls # "" THEN st
    ELSE IF approx_len_of(rest) > max_const_len THEN [st EXCEPT !.cls = "IterableTooLong"]
    ELSE bind(st, a.vararg, rest)

\* approx_len_of a plain dict of keyword arguments: its length, and for every item the
\* pair (2), the key (a name of one character) and the value
RECURSIVE SumOver(_, _)
SumOver(S, kwargs) ==
    IF S = {} THEN 0
    ELSE LET x == CHOOSE y \in S : TRUE IN 2 + 1 + approx_len_of(kwargs[x]) + SumOver(S \ {x}, kwargs)
kwargs_len(kwargs) == Cardinality(keys(kwargs)) + SumOver(keys(kwargs), kwargs)

\* **kwargs: the keyword arguments left over; without it there must be none
bind_kwarg(st, a) ==
    IF st.cls # "" THEN st
    ELSE IF a.kwarg # ""
    THEN IF kwargs_len(st.kwargs) > max_const_len THEN [st EXCEPT !.cls = "IterableTooLong"]
         ELSE bind(st, a.kwarg, PyDict(st.kwargs))
    ELSE IF keys(st.kwargs) # {} THEN [st EXCEPT !.cls = "TypeError"]
    ELSE st

\* _bind_function_args on the callee's names
bind_function_args(names, a, args, kwargs) ==
    LET numpos == Len(a.posonlyargs) + Len(a.args)
        st == BindState(names, kwargs) IN
    IF Len(args) > numpos /\ a.vararg = "" THEN [st EXCEPT !.cls = "TypeError"]
    ELSE bind_kwarg(bind_vararg(bind_kwonly(bind_posargs(bind_posonly(st, a, args, 1), a, args, 1), a, 1),
                                a, args), a)

\* the parameter lists of the functions that are called
Signatures ==
    {arguments(<<>>, <<>>, "", <<>>, <<>>, "", <<>>),
     arguments(<<>>, <<"a", "b">>, "", <<>>, <<>>, "", <<>>),
     arguments(<<>>, <<"a", "b">>, "", <<>>, <<>>, "", <<Num(1)>>),
     arguments(<<>>, <<"a", "b">>, "", <<>>, <<>>, "", <<Num(1), Name("a")>>),
     arguments(<<>>, <<"a", "b">>, "", <<>>, <<>>, "", <<Name("c")>>),
     arguments(<<"a">>, <<"b">>, "", <<>>, <<>>, "", <<>>),
     arguments(<<"a">>, <<"b">>, "", <<>>, <<>>, "", <<Name("a")>>),
     arguments(<<"a">>, <<>>, "", <<>>, <<>>, "c", <<Num(1)>>),
     arguments(<<>>, <<"a">>, "c", <<>>, <<>>, "", <<>>),
     arguments(<<>>, <<"a">>, "", <<"b">>, <<Absent>>, "", <<>>),
     arguments(<<>>, <<"a">>, "", <<"b">>, <<Name("d")>>, "", <<>>),
     arguments(<<>>, <<"a">>, "", <<>>, <<>>, "c", <<>>),
     arguments(<<>>, <<"a", "b">>, "c", <<>>, <<>>, "d", <<Num(1)>>)}

\* the arguments of a call: up to MaxArgs positional ones, and keywords among a, b, d
Positional == {[j \in 1..n |-> IntV(10 * j)] : n \in 0..MaxArgs}
Keywords == {[x \in ScopeIds |-> IF x \in ks THEN IntV(7) ELSE Undef] : ks \in SUBSET {"a", "b", "d"}}

\* func(*args, **kwargs) up to the start of the body: the callee's names are a copy of the
\* names the function closed over
bind_call ==
    /\ \E a \in Signatures, args \in Positional, kwargs \in Keywords :
          \E st \in {bind_function_args(scope.names, a, args, kwargs)} :
              scope' = [scope EXCEPT !.op = [t |-> "call", arguments |-> a, args |-> args, kwargs |-> kwargs,
                                             locals |-> st.names, bound |-> st.bound, evals |-> st.evals,
                                             cls |-> st.cls]]
    /\ UNCHANGED <<self, ctl, stk, envs, evallers, it_pos, result, runs, ev, hist, box, opst, heap>>

InitArgs ==
    /\ self = [_num_stmts |-> 0, _loops |-> 0, _depth |-> 1, _names |-> 1, _expr |-> 0, nodes_Name |-> 0]
    /\ ctl = CtlIdle
    /\ stk = <<>>
    /\ envs = <<EmptyNames>>
    /\ evallers = <<>>
    /\ it_pos = 0
    /\ result = [k |-> "none", v |-> NoneV, e |-> NoExc]
    /\ runs = 0
    /\ ev = NoEv
    /\ hist = [handled |-> 0, iters |-> 0, kinds |-> {}]
    /\ box = NoneV
    /\ opst = NoneV
    /\ heap = NoneV
    /\ scope = [names |-> [EmptyScope EXCEPT !["d"] = IntV(0)], n |-> 0, op |-> NoScopeOp]

NextArgs == bind_call

SpecArgs == InitArgs /\ [][NextArgs]_vars

(***************************************************************************)
(* Properties of the evaluator.                                            *)
(***************************************************************************)
\* C1: when the body of a try statement raised a Limit error, the statement ends by raising
\* that error, and no handler body ran for it, whatever clauses it has
C1_LimitErrorLeavesTry ==
    (ev.t = "try_done" /\ ev.e.orig \in LimitException) =>
        (ctl.m = "exc" /\ ctl.e = ev.e /\ ~ev.flag)

\* C2: in one run the handlers of at most max_statements nodes run: a visit runs its handler
\* exactly when the statement counter has not passed max_statements, and the visit that is
\* refused raises TooManyStatements; the handled visits are among the counted steps (a
\* pattern of a match statement is counted too, without being a visit)
C2_StatementCeiling ==
    /\ hist.handled <= max_statements /\ hist.handled <= self._num_stmts
    /\ (ev.t = "visit" => (ev.flag <=> ev.n <= max_statements))
    /\ (ev.t = "visit" /\ ~ev.flag) => (ctl.m = "exc" /\ ctl.e.cls = "TooManyStatements")

\* a visit is refused a second time in a module the host loaded through execute_module
C2_Witness ==
    /\ ev.t = "visit" /\ ~ev.flag /\ ev.n >= max_statements + 2
    /\ \E j \in 1..Len(stk) : stk[j].k = "execute_module"

\* C3: the iterations let through, over all loops of the run together, are the counted ones
\* up to max_loops; the iteration that passes the ceiling raises a Limit error and binds no name
C3_LoopCeilingState ==
    /\ hist.iters = (IF self._loops <= max_loops THEN self._loops ELSE max_loops)
    /\ (ev.t = "iter" => (ev.flag <=> ev.n <= max_loops))
    /\ (ev.t = "iter" /\ ~ev.flag) => (ctl.m = "exc" /\ ctl.e.cls \in LimitException)
C4_RecursionExact ==
    ev.t = "call" => (~ev.flag <=> ev.n + 1 > max_recursion_depth)

\* C5: every run that starts ends
C5_RunTerminates == (ctl.m # "idle") ~> (ctl.m = "idle")

\* C6: at the start of every top-level run the three counters have their initial values
C6_CountersAtStart ==
    ev.t = "start" => (self._num_stmts = 0 /\ self._loops = 0 /\ self._depth = 1)

\* the attribute names that may not be read
Unreadable(attr) ==
    \/ attr # <<>> /\ Head(attr) = "_"
    \/ Len(attr) >= 5 /\ SubSeq(attr, 1, 5) = <<"f", "u", "n", "c", "_">>
    \/ attr \in {<<"f", "o", "r", "m", "a", "t">>, <<"m", "r", "o">>,
                 <<"f", "o", "r", "m", "a", "t", "_", "m", "a", "p">>}

\* C10: the visit of an attribute node with an unreadable name raises FeatureNotAvailable,
\* and no such node ever waits for its subject's value, so the attribute is never fetched
C10_DeniedAttribute ==
    /\ (ev.t = "visit" /\ ev.flag /\ ev.node.t = "Attribute" /\ Unreadable(ev.node.attr)) =>
            (ctl.m = "exc" /\ ctl.e.cls = "FeatureNotAvailable")
    /\ \A j \in 1..Len(stk) : stk[j].k = "Attribute" => ~Unreadable(stk[j].node.attr)

\* an unreadable attribute is refused in the body of a lambda that a host callable invoked
C10_Witness ==
    /\ ev.t = "visit" /\ ev.flag /\ ev.node.t = "Attribute" /\ Unreadable(ev.node.attr)
    /\ ctl.m = "exc"
    /\ \E j \in 1..Len(stk) : /\ stk[j].k = "Call" /\ stk[j].ph = "body"
                              /\ stk[j].fn.k = "_Lambda"
                              /\ stk[j].node.func = Name("apply")

\* the operations that change a container in place
Mutators == {"append", "extend", "insert", "setitem", "update", "setdefault", "pop", "remove",
             "delete", "clear"}

\* C7: a mutating operation on a safe list or dict either succeeds and leaves approx_len
\* within max_const_len, or raises IterableTooLong and leaves the container as it was
C7_MutatorWithinLimit ==
    box.op \in Mutators =>
        /\ box.out = "ok" => approx_len_of(box.c) <= max_const_len
        /\ box.out = "IterableTooLong" => box.same

\* the size of a container counted from its contents: the items and the size of each
RECURSIVE SumLen(_)
SumLen(l) == IF l = <<>> THEN 0 ELSE approx_len_of(Head(l)) + SumLen(Tail(l))
Recomputed(c) ==
    IF c.k = "list" THEN Len(c.l) + SumLen(c.l)
    ELSE Len(c.l) + SumLen([j \in 1..Len(c.l) |-> c.l[j].l[1]]) + SumLen([j \in 1..Len(c.l) |-> c.l[j].l[2]])

\* C8: the cached approx_len of a safe list or dict is never below the size counted from
\* its contents, and never negative
C8_CachedLenConservative ==
    /\ box.c.alen >= Recomputed(box.c)
    /\ box.c.alen >= 0

\* the integers that fit max_int_size bits
min_int == -(2 ^ (max_int_size - 1))
max_int == 2 ^ (max_int_size - 1) - 1
InRange(n) == min_int <= n /\ n <= max_int

\* C9: an arithmetic operation on integers raises NumberTooHigh unless both operands and
\* an integer result lie in [min_int, max_int]
C9_IntegerRange ==
    (opst.op \in {"Add", "Sub", "Mult", "Pow", "LShift"} /\ opst.r.cls # "NumberTooHigh") =>
        /\ InRange(opst.a.i) /\ InRange(opst.b.i)
        /\ (opst.r.cls = "" /\ opst.r.v.k = "int") => InRange(opst.r.v.i)

(***************************************************************************)
(* Properties of names and scopes.                                         *)
(***************************************************************************)
\* the names dict and the source tag that are current while the handlers st are suspended:
\* those of the innermost running call or module, else the interpreter's own
RECURSIVE names_of(_)
names_of(st) ==
    IF st = <<>> THEN 1
    ELSE LET fr == st[Len(st)] IN
         IF fr.k = "Call" /\ fr.ph \in {"bind", "body"} THEN fr.env
         ELSE names_of(SubSeq(st, 1, Len(st) - 1))

RECURSIVE expr_of(_)
expr_of(st) ==
    IF st = <<>> THEN runs
    ELSE LET fr == st[Len(st)] IN
         IF fr.k = "Call" /\ fr.ph \in {"bind", "body"} THEN fr.fn.expr
         ELSE IF fr.k = "execute_module" THEN fr.tag
         ELSE expr_of(SubSeq(st, 1, Len(st) - 1))

\* C11: the builtins cannot be rebound: whatever the scripts do, the interpreter's own
\* (top-level) names dict never holds a builtin's name as a key
C11_BuiltinsNeverBound == \A id \in BuiltinIds : envs[1][id] = Undef

\* C12: a call of a user function or lambda leaves the names dict and the source tag as
\* they were before it, however it ends: at every moment the current names dict and tag
\* are those of the innermost call or module still running, so once a call has ended
\* (by returning, by an error in its body or while its arguments were bound, or refused
\* for its depth) they are the caller's again
C12_CallRestoresFrame ==
    /\ self._names = names_of(stk)
    /\ self._expr = expr_of(stk)
    /\ (ev.t = "call_end" => self._names # ev.n)

\* a call made inside another function, whose function was defined by an earlier run's
\* source, has ended with an error
C12_Witness ==
    /\ ev.t = "call_end" /\ ~ev.flag
    /\ self._names # 1
    /\ \E j \in 1..Len(stk) : stk[j].k = "Call" /\ stk[j].ph = "body" /\ stk[j].fn.expr # runs

\* the innermost call that is running
RECURSIVE callee(_)
callee(st) ==
    IF st = <<>> THEN [k |-> "none"]
    ELSE LET fr == st[Len(st)] IN
         IF fr.k = "Call" /\ fr.ph \in {"bind", "body"} THEN fr
         ELSE callee(SubSeq(st, 1, Len(st) - 1))

\* a call has just entered its function: the names the function starts with, parameters
\* apart, are those of the dict d
CalleeStartsWith(d) ==
    LET fr == callee(stk)
        passed == {fr.fn.node.params[j] : j \in 1..(fr.i - 1)} IN
    \A id \in DOMAIN envs[fr.env] \ passed : envs[fr.env][id] = d[id]

CallEntered == ev.t = "call" /\ ev.flag /\ ctl.m # "exc"

\* C13 as stated: in a called function every name that its defining scope held when the def
\* or lambda was evaluated has the value it had then, whatever the enclosing scope bound
\* it to afterwards
C13_DefinitionTimeBindings ==
    CallEntered =>
        LET fr == callee(stk)
            passed == {fr.fn.node.params[j] : j \in 1..(fr.i - 1)} IN
        \A id \in DOMAIN envs[fr.env] \ passed :
            fr.fn.snap[id] # Undef => envs[fr.env][id] = fr.fn.snap[id]

\* C13: a called function starts with the bindings its defining scope has at the time of the
\* call: the defining dict is held by reference and copied when the call begins, so a name
\* rebound in the enclosing scope after the definition has its new value in the call
C13_CallTimeBindings == CallEntered => CalleeStartsWith(envs[callee(stk).fn.env])

\* a function is called after a name of its defining scope, bound when it was defined, was
\* rebound to another value
C13_Witness ==
    /\ CallEntered
    /\ \E id \in Ids : LET fn == callee(stk).fn IN
           /\ fn.snap[id] # Undef
           /\ fn.snap[id] # envs[fn.env][id]
           /\ envs[callee(stk).env][id] = envs[fn.env][id]

\* C14: what a user function binds while it runs (parameters, assignments, nested defs,
\* match captures) stays in its own names dict: the caller's dict holds throughout the
\* call, and when the call has ended, exactly what it held when the call began
C14_CalleeBindingsStayInside ==
    /\ \A j \in 1..Len(stk) :
          (stk[j].k = "Call" /\ stk[j].ph \in {"bind", "body"}) => envs[stk[j].old] = stk[j].before
    /\ (ev.t = "call_end" => envs[self._names] = ev.node.before)

\* a call has returned whose function rebound, in its own dict, a name that the caller
\* holds too
C14_Witness ==
    /\ ev.t = "call_end" /\ ev.flag
    /\ \E id \in Ids : /\ envs[self._names][id] # Undef
                       /\ envs[ev.n][id] # Undef
                       /\ envs[ev.n][id] # envs[self._names][id]
                       /\ \A j \in 1..Len(ev.node.fn.params) : ev.node.fn.params[j] # id

(***************************************************************************)
(* Properties of the try statement.                                        *)
(***************************************************************************)
Surfaced(out) == out.m = "val" /\ IsSentinel(out.v)

\* C15: the finally clause of a try statement is entered exactly once, after the body and
\* whichever of handler and else ran, however those ended; the statement gives the
\* sentinel the finally clause surfaced if it surfaced one, otherwise the sentinel that the
\* last of body, handler and else surfaced, and None when that one completed normally
C15_FinallyOnce ==
    /\ \A j \in 1..Len(stk) :
          stk[j].k = "Try" => stk[j].fin = (IF stk[j].ph = "finally" THEN 1 ELSE 0)
    /\ (ev.t = "try_done" =>
          LET log == ev.node.log
              last == log[Len(log)]
              before == log[Len(log) - 1] IN
          /\ ev.n = 1
          /\ Len(log) >= 2 /\ log[1].ph = "body"
          /\ last.ph = "finally" /\ \A j \in 1..(Len(log) - 1) : log[j].ph # "finally"
          /\ (Surfaced(last.out) => ctl = last.out)
          /\ (last.out.m = "val" /\ ~Surfaced(last.out) /\ Surfaced(before.out) => ctl = before.out)
          /\ (last.out.m = "val" /\ ~Surfaced(last.out) /\ before.out.m = "val" /\ ~Surfaced(before.out)
                => ctl = CtlVal(NoneV)))

\* a finally clause surfaced a sentinel after a handler had surfaced another one
C15_Witness ==
    /\ ev.t = "try_done"
    /\ LET log == ev.node.log IN
       /\ Len(log) = 3 /\ log[2].ph = "handler"
       /\ Surfaced(log[2].out) /\ Surfaced(log[3].out) /\ log[2].out # log[3].out

\* the else clause of the try statement that has just ended was executed
ElseRan == \E j \in 1..Len(ev.node.log) : ev.node.log[j].ph = "orelse"

\* C16 as stated: the else clause is executed exactly when the body raised no exception
C16_ElseIffNoException ==
    ev.t = "try_done" => (ElseRan <=> ev.node.log[1].out.m # "exc")

\* C16: the else clause is executed exactly when the body ran to its end, that is, raised no
\* exception and surfaced no return, break or continue; while it runs nothing has been
\* raised, no handler was tested and only the body has run
C16_ElseIffBodyRanThrough ==
    /\ (ev.t = "try_done" =>
          (ElseRan <=> (ev.node.log[1].out.m = "val" /\ ~Surfaced(ev.node.log[1].out))))
    /\ \A j \in 1..Len(stk) :
          (stk[j].k = "Try" /\ stk[j].ph = "orelse") =>
              /\ stk[j].bexc = NoExc /\ stk[j].tested = <<>>
              /\ Len(stk[j].log) = 1 /\ ~Surfaced(stk[j].log[1].out)

\* a try statement with handlers and an else clause ended after the else clause ran
C16_Witness ==
    /\ ev.t = "try_done" /\ ElseRan
    /\ ev.node.node.orelse # <<>> /\ ev.node.node.handlers # <<>>

\* what the text of a handler says about an exception: bare matches everything, a string
\* literal the equal type name of the original exception, a tuple of them any member
Matches(h, e) ==
    \/ h.type = Absent
    \/ h.type # Absent /\ h.type.t = "Constant" /\ h.type.c = StrV(__name__(e.orig))
    \/ h.type # Absent /\ h.type.t = "Tuple"
         /\ \E j \in 1..Len(h.type.elts) : h.type.elts[j] = Str(__name__(e.orig))

\* a handler of one of the three forms, without 'as'
WellFormed(h) ==
    /\ h.name = ""
    /\ \/ h.type = Absent
       \/ h.type.t = "Constant" /\ h.type.c.k = "str"
       \/ h.type.t = "Tuple" /\ \A j \in 1..Len(h.type.elts) :
                                    h.type.elts[j].t = "Constant" /\ h.type.elts[j].c.k = "str"

\* the first handler whose text matches, 0 without one
FirstMatch(hs, e) ==
    IF \E j \in 1..Len(hs) : Matches(hs[j], e)
    THEN CHOOSE j \in 1..Len(hs) : Matches(hs[j], e) /\ \A i \in 1..(j - 1) : ~Matches(hs[i], e)
    ELSE 0

\* the handler bodies that ran in the try statement that has just ended
HandlersRun == {ev.node.log[j].hi : j \in {i \in 1..Len(ev.node.log) : ev.node.log[i].ph = "handler"}}

\* the statement that has just ended tested its handlers in source order up to the first
\* that matches, ran the body of that one alone, and without a match left the body's
\* exception pending
HandlersAsWritten ==
    LET hs == ev.node.node.handlers
        first == FirstMatch(hs, ev.e)
        upto == IF first = 0 THEN Len(hs) ELSE first IN
    /\ ev.node.tested = [j \in 1..upto |-> j]
    /\ HandlersRun = (IF first = 0 THEN {} ELSE {first})
    /\ (first = 0 => ev.node.pend = CtlExc(ev.e))

\* a try statement has ended whose body raised an error that is not a limit error
BodyRaised == ev.t = "try_done" /\ ev.e # NoExc /\ ev.e.orig \notin LimitException

Stray == ctl.m = "val" /\ LoopControl(ctl.v)

\* what the handler on top of the stack does with a break or continue that reaches it: a
\* loop consumes it (break ends the loop, continue goes on with it), a block and a try
\* statement hand it up, and the top of a function body, of a module and of eval/execute
\* turn it into DraconicSyntaxError; no other handler is ever handed one
C18_Step ==
    Stray =>
        LET fr == stk[Len(stk)]
            below == SubSeq(stk, 1, Len(stk) - 1) IN
        CASE fr.k \in {"For", "While"} ->
                /\ fr.ph = "body"
                /\ IF ctl.v = BreakS THEN stk' = below /\ ctl' = CtlVal(NoneV)
                   ELSE /\ SubSeq(stk', 1, Len(stk) - 1) = below /\ stk'[Len(stk)].k = fr.k
                        /\ ctl'.m = (IF fr.k = "For" THEN "iter" ELSE "eval")
          [] fr.k = "_exec" -> stk' = below /\ ctl' = ctl
          [] fr.k = "Try" ->
                IF fr.ph = "finally" THEN stk' = below /\ ctl' = ctl
                ELSE /\ SubSeq(stk', 1, Len(stk) - 1) = below
                     /\ stk'[Len(stk)].k = "Try" /\ stk'[Len(stk)].ph = "finally"
                     /\ stk'[Len(stk)].pend = ctl
          [] fr.k = "Call" ->
                /\ fr.ph = "body" /\ fr.fn.k = "_Function"
                /\ stk' = below /\ ctl'.m = "exc" /\ ctl'.e.cls = "NestedException"
                /\ ctl'.e.last_exc.cls = "DraconicSyntaxError"
          [] fr.k = "execute_module" -> stk' = below /\ ctl'.m = "exc" /\ ctl'.e.cls = "DraconicSyntaxError"
          [] fr.k = "top" -> ctl' = CtlIdle /\ result'.k = "exc" /\ result'.e = Exc("DraconicSyntaxError")
          [] OTHER -> FALSE

\* no sentinel is a value: not the result handed to the host, not what a call returns, not
\* what a name is bound to; a call whose body surfaced break or continue has raised
C18_NoSentinelValue ==
    /\ ~IsSentinel(result.v)
    /\ (ev.t = "call_end" =>
          /\ (ctl.m = "val" => ~IsSentinel(ctl.v))
          /\ (LoopControl(ev.node.ret) =>
                  /\ ctl.m = "exc" /\ ctl.e.cls = "NestedException"
                  /\ ctl.e.last_exc.cls = "DraconicSyntaxError"))
    /\ \A j \in 1..Len(envs) : \A id \in DOMAIN envs[j] : ~IsSentinel(envs[j][id])

\* C18: a break or continue is consumed by the nearest enclosing loop of the same function
\* body and by nothing else; without such a loop it becomes DraconicSyntaxError at the top
\* of eval, execute, execute_module or the function body, so it is never a value handed
\* to the host or to a caller and never reaches a loop of the calling function
C18_LoopControlStaysInside == [][C18_Step]_vars /\ []C18_NoSentinelValue

\* the body of a function called from inside a running loop surfaced break or continue
C18_Witness ==
    /\ ev.t = "call_end" /\ LoopControl(ev.node.ret)
    /\ \E j \in 1..Len(stk) : stk[j].k \in {"For", "While"} /\ stk[j].ph = "body"

(***************************************************************************)
(* Properties of match.                                                    *)
(***************************************************************************)
\* the pattern that decides a case: what is left when the "as" captures are taken off
RECURSIVE core(_)
core(pattern) ==
    IF pattern.t = "MatchAs" /\ pattern.pattern # Absent THEN core(pattern.pattern) ELSE pattern

\* every name of the pattern holds the subject in the names of the running code
Bound(pattern, subject) ==
    \A id \in bound_names(pattern) : Lookup(envs[self._names], id) = subject

\* the match statement is at case ci, in phase ph
MatchAt(ci, ph) ==
    /\ Len(stk) > 0
    /\ stk[Len(stk)].k = "Match" /\ stk[Len(stk)].ci = ci /\ stk[Len(stk)].ph = ph

\* the case after case ci is the one being decided: its value is being compared, or it
\* matched and bound, or its pattern was refused; after the last case the statement is over
NextCaseTried(rest, subject, ci) ==
    IF rest = <<>> THEN ctl = CtlVal(NoneV)
    ELSE LET c == rest[1]
             p == core(c.pattern) IN
         CASE p.t = "MatchValue" -> ctl = CtlEval(p.value) /\ MatchAt(ci + 1, "value")
           [] p.t = "MatchAs" ->
                /\ Bound(c.pattern, subject)
                /\ c.guard # Absent => ctl = CtlEval(c.guard) /\ MatchAt(ci + 1, "guard")
           [] OTHER -> ctl.m = "exc" /\ ctl.e.cls = "FeatureNotAvailable"

\* C19: when the pattern of a case matches, its bindings are in the local names before the
\* guard is evaluated; when the guard is false the bindings stay and the next case is tried
C19_BindingsBeforeGuard ==
    /\ ev.t = "bind" =>
          /\ Bound(ev.node.pattern, ev.node.subject)
          /\ ev.flag => ctl = CtlEval(ev.node.guard) /\ MatchAt(ev.n, "guard")
    /\ (ev.t = "guard" /\ ~ev.flag) =>
          /\ Bound(ev.node.pattern, ev.node.subject)
          /\ NextCaseTried(ev.node.rest, ev.node.subject, ev.n)

\* a guard was false for a case that bound a name, and another case follows
C19_Witness ==
    /\ ev.t = "guard" /\ ~ev.flag
    /\ bound_names(ev.node.pattern) # {}
    /\ ev.node.rest # <<>>

(***************************************************************************)
(* Properties of comprehensions.                                           *)
(***************************************************************************)
\* what a Name node gives for id now, and what it gives without any comprehension
Resolves(id) == eval_names_extra(Cur, id, self.nodes_Name)
Plain(id) == eval_names_extra(Cur, id, 0)

\* C20: once the comprehensions and generator expressions of a run have finished, failed or
\* been abandoned, every name resolves as it does without them: no iteration variable is
\* visible and no name of the scope is shadowed
C20_LookupsUndisturbed ==
    ctl.m = "idle" => \A id \in Ids \cup BuiltinIds : Resolves(id) = Plain(id)

\* the same, asked only when every generator expression that was started has ended
AllEnded == \A k \in 1..Len(evallers) : evallers[k].st \in {"free", "new", "done"}
UndisturbedOnceEnded ==
    (ctl.m = "idle" /\ AllEnded) => \A id \in Ids \cup BuiltinIds : Resolves(id) = Plain(id)

(***************************************************************************)
(* Properties of errors that cross calls.                                  *)
(***************************************************************************)
\* the NestedException wrappers of an exception, outermost first, as last_exc links them
RECURSIVE Wrappers(_)
Wrappers(e) == IF e.cls = "NestedException" THEN <<e>> \o Wrappers(e.last_exc) ELSE <<>>

\* the exception at the end of the chain: the error as it was raised
RECURSIVE Root(_)
Root(e) == IF e.cls = "NestedException" THEN Root(e.last_exc) ELSE e

\* the Call nodes of the wrappers, outermost first
Sites(e) == [j \in 1..Len(Wrappers(e)) |-> Wrappers(e)[j].node]

\* the calls that were running where the error was raised: the calls of user functions
\* (a host callable that only calls a user function counts as that call), and all calls
UserCallsAt(e) ==
    LET c == SelectSeq(Root(e).at, LAMBDA s : ~s.host) IN [j \in 1..Len(c) |-> c[j].node]
CallsAt(e) == [j \in 1..Len(Root(e).at) |-> Root(e).at[j].node]

\* every wrapper's original is the root's: the wrapped exception of an AnnotatedException,
\* the error itself otherwise
SameOriginal(e) == \A j \in 1..Len(Wrappers(e)) : Wrappers(e)[j].orig = Root(e).orig

HostUntouched == \A i \in 1..Len(HostObjs) : heap.objs[i] = HostObjs[i]

\* x = e with e giving a native container: x is bound to a new safe container with the
\* same items, and nothing else refers to it
FreshCopy ==
    (heap.op.t = "assign" /\ heap.op.raw # NoneV) =>
        LET v == heap.names[heap.op.target] IN
        /\ v.k = "ref" /\ v.id > Len(HostObjs)
        /\ heap.objs[v.id] = [heap.objs[heap.op.raw.id] EXCEPT !.native = FALSE]
        /\ \A n \in RefIds \ {heap.op.target} : heap.names[n] # v
        /\ \A i \in 1..Len(heap.objs) : v.id \notin refs_of(heap.objs[i])

\* a[key] = 9 and a.append(9) with the name a bound to a safe container: the container
\* itself has the item, so every name bound to it gives it
SharedByReference ==
    (heap.op.via # "" /\ heap.op.raw = NoneV) =>
        \A n \in RefIds :
            heap.names[n] = heap.names[heap.op.via] =>
                LET o == heap.objs[heap.names[n].id] IN
                CASE heap.op.t = "setitem" -> obj_getitem(o, heap.op.key) = OpOk(IntV(9))
                  [] heap.op.t = "append" -> o.data # <<>> /\ o.data[Len(o.data)] = IntV(9)
                  [] heap.op.t = "clear" -> o.data = <<>>
                  [] OTHER -> TRUE

\* C22: a native list, dict or set of the host (a builtin, or nested inside one) is never
\* mutated by a script: every read of it through the evaluator gives a new safe copy, so
\* subscript assignments and mutating method calls leave the host's object as it was; a
\* safe container of the script is shared by reference between the names bound to it
C22_HostContainersCopied == HostUntouched /\ FreshCopy /\ SharedByReference

\* a statement assigned to an item of a host container, or called a mutating method on
\* it, while two names of the script are bound to one safe container
C22_Witness ==
    /\ heap # NoneV
    /\ heap.op.t \in {"setitem", "append", "clear"} /\ heap.op.raw # NoneV
    /\ heap.names["x"] = heap.names["y"] /\ heap.names["x"].k = "ref"
    /\ ~heap.objs[heap.names["x"].id].native

(***************************************************************************)
(* Properties of the power operator.                                       *)
(***************************************************************************)
\* a ** b as Python gives it for integers: an integer for b >= 0 (0 ** 0 is 1), the float
\* 1 / a ** -b for b < 0, and ZeroDivisionError for 0 to a negative power
Power(a, b) ==
    IF b = 0 THEN OpOk(IntV(1))
    ELSE IF b > 0 THEN OpOk(IntV(a ^ b))
    ELSE IF a = 0 THEN OpFail("ZeroDivisionError")
    ELSE OpOk(FloatV(1, a ^ (0 - b)))

RECURSIVE EmittedLen(_)
EmittedLen(acc) ==
    IF acc = <<>> THEN 0 ELSE approx_len_of(Head(acc)) + 1 + EmittedLen(Tail(acc))

\* C24: at every moment of a list comprehension, whatever the number of its clauses, the
\* values collected so far have a total approximate length (approx_len_of of each value
\* plus one) of at most max_const_len
C24_EmittedWithinLimit ==
    \A j \in 1..Len(stk) :
        (stk[j].k = "ListComp" /\ ~stk[j].lazy) => EmittedLen(stk[j].acc) <= max_const_len

(***************************************************************************)
(* Properties of unpacking assignment.                                     *)
(***************************************************************************)
\* the name a flat target binds
TargetId(target) == IF target.t = "Starred" THEN target.value.id ELSE target.id

\* the targets are names and starred names that may be assigned
FlatTargets(names) ==
    /\ names.t \in {"Tuple", "List"}
    /\ \A j \in 1..Len(names.elts) :
          \/ names.elts[j].t = "Name" /\ names.elts[j].id \notin BuiltinIds
          \/ names.elts[j].t = "Starred" /\ names.elts[j].value.t = "Name"
                /\ names.elts[j].value.id \notin BuiltinIds

\* the names dict after the bindings were made in order
RECURSIVE Rebound(_, _)
Rebound(names, bound) ==
    IF bound = <<>> THEN names
    ELSE Rebound([names EXCEPT ![bound[1][1]] = bound[1][2]], Tail(bound))

\* what k targets with the starred one at index s (from 0) get from the n values vals
Distributed(elts, vals, s) ==
    LET k == Len(elts)
        n == Len(vals) IN
    [j \in 1..k |->
        <<TargetId(elts[j]),
          IF j - 1 < s THEN vals[j]
          ELSE IF j - 1 = s THEN PyList(SubSeq(vals, s + 1, s + n - (k - 1)))
          ELSE vals[n - (k - j)]>>]

UnpackStep(before, after) ==
    LET op == after.op
        elts == op.names.elts
        vals == Items(op.values)
        k == Len(elts)
        n == Len(vals)
        starred == stars(elts, 1) IN
    (op.t = "unpack" /\ FlatTargets(op.names) /\ Iterable(op.values)) =>
        /\ (Len(starred) = 1 /\ n >= k - 1) =>
              /\ op.cls = ""
              /\ op.bound = Distributed(elts, vals, starred[1] - 1)
              /\ after.names = Rebound(before.names, op.bound)
        /\ (Len(starred) = 1 /\ n < k - 1) =>
              /\ op.cls = "DraconicValueError" /\ op.msg = <<k - 1, n>>
              /\ op.bound = <<>> /\ after.names = before.names
        /\ (starred = <<>> /\ n # k) =>
              /\ op.cls = "DraconicValueError" /\ op.msg = <<k, n>>
              /\ op.bound = <<>> /\ after.names = before.names

\* C25: unpacking n values into k targets with one starred target at index s, n >= k - 1,
\* binds the targets before s to the first s values, those after s to the last k - 1 - s
\* values and the starred one to the list of the n - (k - 1) values between, in order; with
\* n < k - 1, or without a starred target and n # k, it raises a ValueError that names the
\* expected and the actual count and binds no target
C25_UnpackDistributes == [][UnpackStep(scope, scope')]_vars

\* a starred target in the middle took two of four values, and the next statement, with
\* too few values for its targets, left these bindings as they were
C25_Witness ==
    /\ scope # NoneV /\ scope.op.t = "unpack"
    /\ scope.op.cls = "DraconicValueError" /\ scope.op.msg = <<2, 1>>
    /\ Len(stars(scope.op.names.elts, 1)) = 1
    /\ scope.names["a"] = IntV(1) /\ scope.names["b"] = IntV(4)
    /\ scope.names["c"] = PyList(<<IntV(2), IntV(3)>>)

(***************************************************************************)
(* Properties of sequence patterns.                                        *)
(***************************************************************************)
\* the item of the subject that sub-pattern j of k gets, the starred one (at place s, or
\* s = 0 for none) the slice between the others
ItemFor(subject, k, s, j) ==
    LET n == Len(subject.l) IN
    IF s = 0 \/ j < s THEN subject.l[j]
    ELSE IF j = s THEN slice(subject, s - 1, n - (k - s))
    ELSE subject.l[n - (k - j)]

\* the subject is a sequence of a length that fits the pattern
Fits(node, subject) ==
    LET k == Len(node.patterns)
        starred == stars(node.patterns, 1) IN
    /\ IsSequence(subject)
    /\ \/ starred = <<>> /\ Len(subject.l) = k
       \/ Len(starred) = 1 /\ Len(subject.l) >= k - 1

\* what a sequence pattern gave for a subject agrees with its sub-patterns
SequenceRule(node, subject, r, b, cls) ==
    LET k == Len(node.patterns)
        starred == stars(node.patterns, 1)
        s == IF Len(starred) = 1 THEN starred[1] ELSE 0
        Sub(j) == patma(node.patterns[j], ItemFor(subject, k, s, j), 0)
        AllMatch == \A j \in 1..k : Sub(j).r = "match"
        Twice == \E i, j \in 1..k : i < j /\ keys(Sub(i).b) \cap keys(Sub(j).b) # {} IN
    /\ r = "match" <=> (Fits(node, subject) /\ AllMatch /\ ~Twice)
    /\ r = "match" =>
          \A x \in ScopeIds :
              /\ b[x] # Undef <=> \E j \in 1..k : Sub(j).b[x] # Undef
              /\ \A j \in 1..k : Sub(j).b[x] # Undef => b[x] = Sub(j).b[x]
    /\ (Fits(node, subject) /\ AllMatch /\ Twice) => r = "raise" /\ cls = "DraconicValueError"

\* C26: a sequence pattern matches exactly when the subject is a sequence other than a
\* string, its length is the number of sub-patterns (none starred) or at least that number
\* minus one (one starred), and every sub-pattern matches the item at its place, the starred
\* one the slice between; the bindings are those of the sub-patterns together, and when two
\* sub-patterns bind the same name a ValueError is raised instead
C26_SequencePattern ==
    (scope # NoneV /\ scope.op.t = "match") =>
        \A j \in 1..Len(scope.op.tried) :
            LET e == scope.op.tried[j]
                node == scope.op.cases[e.ci].pattern IN
            node.t = "MatchSequence" =>
                SequenceRule(node, scope.op.subject, e.r, e.b,
                             IF j = Len(scope.op.tried) THEN scope.op.cls ELSE "")

\* [a, *c, b] matched [1, 2, 3] and c got the slice [2]
C26_Witness ==
    /\ scope # NoneV /\ scope.op.t = "match"
    /\ scope.op.cases[1].pattern = MatchSequence(<<Cap("a"), MatchStar("c"), Cap("b")>>)
    /\ scope.op.tried[1].r = "match"
    /\ scope.names["a"] = IntV(1) /\ scope.names["b"] = IntV(3)
    /\ scope.names["c"] = SafeList(<<IntV(2)>>)

(***************************************************************************)
(* Properties of the cases of a match statement.                           *)
(***************************************************************************)
\* the names before case j of the statement was tried
NamesBefore(op, j) == IF j = 1 THEN op.before ELSE op.tried[j - 1].names

\* case j let its body run: its pattern matched and its guard, if any, was true
Chosen(op, j) == op.tried[j].r = "match" /\ op.tried[j].g \in {"", "true"}

\* C27: the cases are tried in source order; at most one body runs, that of the first case
\* whose pattern matches and whose guard is true, and no case is tried after it; a case
\* whose pattern does not match leaves the names as they were
C27_FirstMatchingCase ==
    (scope # NoneV /\ scope.op.t = "match") =>
        LET op == scope.op IN
        /\ Len(op.tried) <= Len(op.cases)
        /\ \A j \in 1..Len(op.tried) : op.tried[j].ci = j
        /\ Len(op.ran) <= 1
        /\ \A j \in 1..Len(op.tried) :
              /\ Chosen(op, j) <=> op.ran = <<j>>
              /\ Chosen(op, j) => j = Len(op.tried)
              /\ op.tried[j].r # "match" => op.tried[j].names = NamesBefore(op, j)
        /\ (op.cls = "" /\ op.ran = <<>>) => Len(op.tried) = Len(op.cases)

\* the first case is a sequence pattern whose first sub-pattern captured an item and whose
\* second one failed: it bound nothing, and the body of the second case ran
C27_Witness ==
    /\ scope # NoneV /\ scope.op.t = "match"
    /\ scope.op.cases[1].pattern = Seq2(Cap("a"), MatchValue(Num(1)))
    /\ scope.op.subject = SafeList(Upto(2))
    /\ scope.op.tried[1].r = "none"
    /\ scope.op.ran = <<2>>
    /\ scope.names["a"] = Undef /\ scope.names["b"] = IntV(1)

(***************************************************************************)
(* Properties of binding the arguments of a call.                          *)
(***************************************************************************)
\* the declared parameters of a parameter list, in the order they are bound
Declared(a) ==
    a.posonlyargs \o a.args \o a.kwonlyargs
    \o (IF a.vararg = "" THEN <<>> ELSE <<a.vararg>>) \o (IF a.kwarg = "" THEN <<>> ELSE <<a.kwarg>>)
NumPos(a) == Len(a.posonlyargs) + Len(a.args)
HasDefault(a, j) == j > NumPos(a) - Len(a.defaults)
Named(s) == {s[j] : j \in 1..Len(s)}

\* a required parameter is missing
Missing(a, args, kwargs) ==
    \/ \E j \in 1..Len(a.posonlyargs) : j > Len(args) /\ ~HasDefault(a, j)
    \/ \E j \in 1..Len(a.args) :
          /\ Len(a.posonlyargs) + j > Len(args) /\ kwargs[a.args[j]] = Undef
          /\ ~HasDefault(a, Len(a.posonlyargs) + j)
    \/ \E j \in 1..Len(a.kwonlyargs) : kwargs[a.kwonlyargs[j]] = Undef /\ a.kw_defaults[j] = Absent

\* a parameter gets a positional and a keyword value
Both(a, args, kwargs) ==
    \E j \in 1..Len(a.args) : Len(a.posonlyargs) + j <= Len(args) /\ kwargs[a.args[j]] # Undef

\* surplus positional arguments without *vararg, surplus keywords without **kwarg
Leftover(a, kwargs) == [x \in DOMAIN kwargs |-> IF x \in Named(a.args) \cup Named(a.kwonlyargs) THEN Undef ELSE kwargs[x]]
SurplusPositional(a, args) == Len(args) > NumPos(a) /\ a.vararg = ""
SurplusKeywords(a, kwargs) == a.kwarg = "" /\ keys(Leftover(a, kwargs)) # {}

\* what *vararg collects
Rest(a, args) == TupleV(SubSeq(args, NumPos(a) + 1, Len(args)))

\* what *vararg or **kwarg would collect is longer than max_const_len
TooLarge(a, args, kwargs) ==
    \/ a.vararg # "" /\ approx_len_of(Rest(a, args)) > max_const_len
    \/ a.kwarg # "" /\ kwargs_len(Leftover(a, kwargs)) > max_const_len

CallRefused(op) ==
    \/ Missing(op.arguments, op.args, op.kwargs) \/ Both(op.arguments, op.args, op.kwargs)
    \/ SurplusPositional(op.arguments, op.args) \/ SurplusKeywords(op.arguments, op.kwargs)

\* every declared parameter was bound once, to the value the call gives it
BoundOnce(op) ==
    LET a == op.arguments
        np == Len(a.posonlyargs) IN
    /\ [j \in 1..Len(op.bound) |-> op.bound[j][1]] = Declared(a)
    /\ \A j \in 1..Len(op.bound) :
          LET x == op.bound[j][1]
              v == op.bound[j][2] IN
          /\ op.locals[x] = v /\ v # Undef
          /\ j <= np =>
                IF j <= Len(op.args) THEN v = op.args[j] ELSE InSeq(<<x, v>>, op.evals)
          /\ (j > np /\ j <= NumPos(a)) =>
                IF j <= Len(op.args) THEN v = op.args[j]
                ELSE IF op.kwargs[x] # Undef THEN v = op.kwargs[x] ELSE InSeq(<<x, v>>, op.evals)
          /\ x \in Named(a.kwonlyargs) =>
                IF op.kwargs[x] # Undef THEN v = op.kwargs[x] ELSE InSeq(<<x, v>>, op.evals)
          /\ x = a.vararg => v = Rest(a, op.args)
          /\ x = a.kwarg => v = PyDict(Leftover(a, op.kwargs))

BindingArgs(st) == Len(st) > 0 /\ st[Len(st)].k = "Call" /\ st[Len(st)].ph = "bind"

\* the default of parameter i of the function fn
DefaultOf(fn, i) == fn.defaults[Len(fn.defaults) - Len(fn.params) + i]

\* the frame of the same call one step later
SameCall(st) == stk'[Len(st)]

DefaultsStep ==
    LET fr == stk[Len(stk)]
        numpos == Len(fr.fn.node.params) IN
    \* a definition evaluates nothing: the next thing is its value, or its refusal
    /\ (ctl.m = "eval" /\ ctl.node.t = "FunctionDef") =>
          ctl'.m \in {"val", "exc"} /\ Len(stk') <= Len(stk)
    \* a default is evaluated for a parameter the call omitted, in the callee's own names
    /\ (BindingArgs(stk) /\ ctl.m = "eval") =>
          /\ fr.i > Len(fr.args) /\ fr.i <= numpos
          /\ ctl.node = DefaultOf(fr.fn.node, fr.i)
          /\ self._names = fr.env /\ fr.env # fr.old /\ fr.env # fr.fn.env
    \* the first default evaluated is that of the first omitted parameter, and the body
    \* starts at once only when no parameter is omitted
    /\ (Len(stk) > 0 /\ fr.k = "Call" /\ fr.ph = "args" /\ ctl.m = "val" /\ Len(stk') >= Len(stk)
        /\ SameCall(stk).ph \in {"bind", "body"}) =>
          IF SameCall(stk).ph = "bind"
          THEN ctl'.m = "eval" /\ BindingArgs(stk') /\ SameCall(stk).i = Len(SameCall(stk).args) + 1
          ELSE Len(SameCall(stk).args) = Len(SameCall(stk).fn.node.params)
    \* the value of a default is bound to its parameter; then comes the default of the next
    \* parameter, or the body after the last one
    /\ (BindingArgs(stk) /\ ctl.m = "val") =>
          \/ ctl'.m = "exc"
          \/ /\ envs'[fr.env][fr.fn.node.params[fr.i]] = ctl.v
             /\ IF fr.i = numpos THEN SameCall(stk).ph = "body"
                ELSE ctl'.m = "eval" /\ BindingArgs(stk') /\ SameCall(stk).i = fr.i + 1

\* C29: a default is not evaluated when the function is defined, nor for a parameter the
\* call supplies; a call evaluates the default of every parameter it omits once, in order,
\* in the callee's names, before the body starts
C29_DefaultsAtCallTime == [][DefaultsStep]_vars

\* the default of the second parameter of a call is about to be evaluated, and it is the
\* name of the first parameter, which the call supplied
C29_Witness ==
    /\ BindingArgs(stk) /\ ctl.m = "eval" /\ ctl.node.t = "Name"
    /\ stk[Len(stk)].i = 2 /\ Len(stk[Len(stk)].args) = 1
    /\ ctl.node.id = stk[Len(stk)].fn.node.params[1]

(***************************************************************************)
(* Properties of the else clause of a loop.                                *)
(***************************************************************************)
\* the frame at position p of the stack is that of a for or while statement
LoopAt(p) == p \in 1..Len(stk) /\ stk[p].k \in {"For", "While"}

\* in this step the statement list body starts where the frame at position p was
StartsAt(p, body) ==
    /\ stk' = Append(SubSeq(stk, 1, p - 1), [k |-> "_exec", body |-> body, i |-> 1])
    /\ ctl' = CtlEval(body[1])

\* in this step the frame at position p is dropped and v goes to the frame below it
GivesAt(p, v) == stk' = SubSeq(stk, 1, p - 1) /\ ctl' = CtlVal(v)

\* in this step the loop at position p ends and its else clause takes its place: what the
\* clause returns goes to whatever the loop statement would have returned to
ElseAt(p) ==
    IF stk[p].node.orelse = <<>> THEN GivesAt(p, NoneV) ELSE StartsAt(p, stk[p].node.orelse)

\* the generator object g has nothing more to give
Finished(g) == evallers[g].st \notin {"new", "suspended", "running"}

\* the frames above position p are generator expressions at their first clause
Generating(p) ==
    /\ p < Len(stk)
    /\ \A j \in (p + 1)..Len(stk) : stk[j].k = "ListComp" /\ stk[j].lazy /\ stk[j].gi = 1

\* the loop at position p learns in this step that its iterable is exhausted, or that its
\* condition is false
Ends(p) ==
    IF stk[p].k = "While"
    THEN p = Len(stk) /\ ctl.m = "val" /\ stk[p].ph = "test" /\ ~Truthy(ctl.v)
    ELSE /\ ctl.m = "iter" /\ stk[p].ph \in {"loop", "body"}
         /\ \/ p = Len(stk) /\ stk[p].it.gen = 0 /\ Exhausted(stk[p].it)
            \/ p = Len(stk) /\ stk[p].it.gen # 0 /\ Finished(stk[p].it.gen)
            \/ Generating(p) /\ stk[p].it.gen = stk[p + 1].me

LoopElseStep ==
    LET top == Len(stk)
        fr == stk[top] IN
    \* the else clause starts only when the loop ends by exhaustion or a false condition
    /\ \A p \in 1..top :
          (LoopAt(p) /\ stk[p].node.orelse # <<>> /\ StartsAt(p, stk[p].node.orelse)) => Ends(p)
    \* and then it does start
    /\ (LoopAt(top) /\ Ends(top)) => ElseAt(top)
    /\ (top > 1 /\ LoopAt(top - 1) /\ Ends(top - 1) /\ Exhausted(fr.its[1]) /\ fr.its[1].gen = 0) =>
          ElseAt(top - 1)
    \* the body's return and break leave the loop at once, anything else goes round again
    /\ (LoopAt(top) /\ ctl.m = "val" /\ fr.ph = "body") =>
          CASE ctl.v.k = "_Return" -> GivesAt(top, ctl.v)
            [] ctl.v.k = "_Break" -> GivesAt(top, NoneV)
            [] OTHER -> /\ Len(stk') = top /\ stk'[top].k = fr.k
                        /\ IF fr.k = "For" THEN ctl'.m = "iter" /\ stk'[top].ph = "body"
                           ELSE ctl' = CtlEval(fr.node.test) /\ stk'[top].ph = "test"
    \* a statement list hands a return, break or continue to the frame below it
    /\ (top > 0 /\ fr.k = "_exec" /\ ctl.m = "val" /\ IsSentinel(ctl.v)) => GivesAt(top, ctl.v)

\* C30: the else clause of a for or while loop is executed exactly when the loop ends because
\* its iterable is exhausted or its condition is false, never after a break or a return of
\* the body, and a return, break or continue that the clause surfaces is the result of the
\* loop statement
C30_LoopElse == [][LoopElseStep]_vars

\* the else clause of a while loop whose condition was false has surfaced continue, inside the
\* body of a for loop that is the statement the loop's result goes to
C30_Witness ==
    /\ Len(stk) > 2 /\ ctl.m = "val" /\ ctl.v = ContinueS
    /\ stk[Len(stk)].k = "_exec" /\ stk[Len(stk)].body = <<Continue>>
    /\ stk[Len(stk) - 1].k = "_exec" /\ stk[Len(stk) - 2].k = "For"
    /\ LET w == stk[Len(stk) - 1].body[stk[Len(stk) - 1].i] IN
       w.t = "While" /\ w.orelse = stk[Len(stk)].body

====
